---- MODULE Spec2Model ----
(***************************************************************************)
(* ContextPile: URL -> Markdown processing endpoints, the transcript       *)
(* continuation, the persistence store they share and the browser client   *)
(* that drives them.                                                       *)
(*                                                                         *)
(* Text is modelled as a sequence of tokens (each token a literal piece of *)
(* the string the code builds); substring search, replacement and          *)
(* concatenation work on these sequences the way the JavaScript string     *)
(* operations work on characters.                                          *)
(***************************************************************************)
EXTENDS Integers, Sequences, FiniteSets, TLC

VARIABLES
    db,             \* prisma.document: sequence of stored rows, id = index
    procs,          \* in-flight / finished POST /api/processor requests
    conts,          \* in-flight / finished POST /api/processor/transcript requests
    clientKind,     \* which client page is running: "Home" or "Dashboard"
    documents,      \* client state: the DocItem list
    selectedDocId,  \* client state: selected id (NoId = null)
    tasks,          \* client: running processDoc invocations
    exPage,         \* structured extraction: the parsed page [anchors, imgs]
    exPc,           \* structured extraction: "parsed", "links", "done"
    exLinks,        \* structured extraction: what extractLinks returned
    exImages,       \* structured extraction: what extractImages returned
    wkUrl,          \* Wikipedia extraction: the request's url
    wkPage,         \* Wikipedia extraction: the fetched page [infoboxes, categoryLinks, refList]
    wkPc,           \* Wikipedia extraction: "parsed", "extracted", "responded"
    wkWikipedia,    \* Wikipedia extraction: the handler's local `wikipedia`
    wkResponse,     \* Wikipedia extraction: the wikipedia part of the JSON response
    mdNodes,        \* Markdown conversion: the nodes of article.content
    mdHandler,      \* Markdown conversion: the handler that converts
    mdPc,           \* Markdown conversion: "parsed", "done"
    mdOut,          \* Markdown conversion: the markdown turndown returned
    tsItem,         \* transcript line: the transcript item [offset, text]
    tsPc,           \* transcript line: "fetched", "done"
    tsOut,          \* transcript line: the rendered line
    pgHandler,      \* page fetch: the handler that runs the generic branch
    pgServer,       \* page fetch: how the remote server and the page behave
    pgNow,          \* page fetch: time elapsed since the handler started, in ticks
    pgPc,           \* page fetch: "start", "awaitHeaders", "readBody", "done"
    pgTimer,        \* page fetch: the abort timer: "none", "armed", "cleared", "fired"
    pgResponse,     \* page fetch: the response [status, saved]
    ytOembed,       \* metadata resolver: what the oEmbed request gives
    ytScrape,       \* metadata resolver: what the watch-page request gives
    ytPc,           \* metadata resolver: "called", "oembedSent", "oembedDone", "returned"
    ytMetadata,     \* metadata resolver: what getYouTubeMetadata returned
    ytInFlight,     \* metadata resolver: the requests sent and not yet settled
    rcEndpoint,     \* transcript race: the endpoint that fetches the transcript
    rcFetch,        \* transcript race: how the retrieval behaves
    rcNow,          \* transcript race: milliseconds since the retrieval started
    rcPc,           \* transcript race: "start", "racing", "done"
    rcTimer,        \* transcript race: the timer: "none", "armed", "fired"
    rcTranscript,   \* transcript race: what the race gave [isNull, items]
    rcResponse,     \* transcript race: the response [status, markdown]
    gnPage,         \* generic branch: the page fetched [url, html]
    gnDoc,          \* generic branch: the parsed document the handler holds
    gnStep,         \* generic branch: the statement to run next
    gnOut,          \* generic branch: the values computed so far
    hsPc,           \* history load: "idle", "sent", "answered", "done"
    hsData          \* history load: the rows the history request returned

flowVars == <<db, procs, conts, clientKind, documents, selectedDocId, tasks>>
extractVars == <<exPage, exPc, exLinks, exImages>>
wikiVars == <<wkUrl, wkPage, wkPc, wkWikipedia, wkResponse>>
markdownVars == <<mdNodes, mdHandler, mdPc, mdOut>>
timeVars == <<tsItem, tsPc, tsOut>>
pageVars == <<pgHandler, pgServer, pgNow, pgPc, pgTimer, pgResponse>>
metaVars == <<ytOembed, ytScrape, ytPc, ytMetadata, ytInFlight>>
raceVars == <<rcEndpoint, rcFetch, rcNow, rcPc, rcTimer, rcTranscript, rcResponse>>
genericVars == <<gnPage, gnDoc, gnStep, gnOut>>
historyVars == <<hsPc, hsData>>

\* the variables the later function-level specifications leave alone
firstVars == <<flowVars, historyVars, extractVars, wikiVars, markdownVars, timeVars>>
pureVars == <<extractVars, wikiVars, markdownVars, timeVars, pageVars, metaVars, raceVars,
             genericVars, historyVars>>

vars == <<flowVars, pureVars>>

-----------------------------------------------------------------------------
(* Bounds of the model *)

MaxProc == 2
MaxCont == 2
MaxTasks == 2

\* rows the Dashboard user owns before the page is opened
MaxHistory == 1

-----------------------------------------------------------------------------
(* Strings as token sequences *)

\* s.indexOf(pat): 1-based position of the first occurrence, 0 when absent
IndexOf(s, pat) ==
    LET hits == {i \in 1..(Len(s) - Len(pat) + 1) : SubSeq(s, i, i + Len(pat) - 1) = pat}
    IN  IF hits = {} THEN 0 ELSE CHOOSE i \in hits : \A j \in hits : i <= j

\* s.includes(pat)
Includes(s, pat) == IndexOf(s, pat) # 0

\* s.replace(pat, rep) with a string pattern: only the FIRST occurrence
ReplaceFirst(s, pat, rep) ==
    LET i == IndexOf(s, pat)
    IN  IF i = 0 THEN s
        ELSE SubSeq(s, 1, i - 1) \o rep \o SubSeq(s, i + Len(pat), Len(s))

\* a || b on strings: the empty string is falsy
OrElse(a, b) == IF a = <<>> THEN b ELSE a

\* n.toString() for n >= 0, one token per decimal digit
RECURSIVE NumToString(_)
NumToString(n) ==
    LET d == <<"0", "1", "2", "3", "4", "5", "6", "7", "8", "9">>
    IN  IF n < 10 THEN <<d[n + 1]>> ELSE NumToString(n \div 10) \o <<d[(n % 10) + 1]>>

\* s.padStart(len, fill) for a one-token fill
RECURSIVE PadStart(_, _, _)
PadStart(s, len, fill) ==
    IF Len(s) >= len THEN s ELSE PadStart(<<fill>> \o s, len, fill)

-----------------------------------------------------------------------------
(* Identities *)

NoUser == "none"
Users == {"u1", "u2"}
ClientUser == "u1"

\* (user.publicMetadata as any).isPro === true
IsPro(u) == u = "u2"

NoId == [kind |-> "none", n |-> 0]
DbId(n) == [kind |-> "db", n |-> n]
TempId(n) == [kind |-> "temp", n |-> n]
ClientId(n) == [kind |-> "client", n |-> n]

-----------------------------------------------------------------------------
(* Literal pieces of text the endpoints emit *)

Placeholder == <<"_Fetching transcript..._">>
TranscriptHeading == <<"\n\n## Transcript\n\n">>
CouldNotFetchNote == <<"\n\n**Error:** Could not fetch transcript (Captions might be disabled)\n">>
FailedToLoadNote == <<"\n\n**Error:** Failed to load transcript.\n">>
NoTranscriptNote ==
    <<"\n\n**Note:** No transcript available (captions may be disabled for this video)\n">>
\* `\n\n**Error:** Could not fetch transcript - ${e.message || 'Unknown error'}\n`
CouldNotFetchMessageNote ==
    <<"\n\n**Error:** Could not fetch transcript - ", "message", "\n">>
UnknownTitle == <<"Unknown Title">>
DefaultChannel == <<"YouTube">>

VideoUrl == <<"https://", "youtu.be", "/v1">>
PageUrl == <<"https://", "example.com", "/a">>
NoUrl == <<>>

\* an url without a scheme: new URL(url) and fetch(url) throw on it
RelativeVideoUrl == <<"youtu.be", "/v1">>
RelativePageUrl == <<"example.com", "/a">>

Schemes == {"https://", "http://"}

\* new URL(url) does not throw
IsAbsoluteUrl(url) == url # <<>> /\ url[1] \in Schemes

\* isYoutubeUrl
isYoutubeUrl(url) == Includes(url, <<"youtube.com">>) \/ Includes(url, <<"youtu.be">>)

-----------------------------------------------------------------------------
(* YouTube metadata resolver (two-phase processor)                          *)
(* oembed: [ok, title, author_name]; ok = the request resolved with 2xx     *)
(* scrape: [ok, ogTitle, docTitle, itempropName, ogDescription, blob]       *)
(* blob:   [kind, text] with kind "none" (no match), "invalid" (JSON.parse  *)
(*         throws), "noinfo" (no videoSecondaryInfoRenderer), "attributed", *)
(*         "runs" (text = the joined runs)                                  *)

NoBlob == [kind |-> "none", text |-> <<>>]
OembedFailed == [ok |-> FALSE, title |-> <<>>, author_name |-> <<>>]
ScrapeFailed ==
    [ok |-> FALSE, ogTitle |-> <<>>, docTitle |-> <<>>, itempropName |-> <<>>,
     ogDescription |-> <<>>, blob |-> NoBlob]

\* the description as it would be if a blob that gives none emptied it
BlobDescriptionStrict(blob, ogDescription) ==
    CASE blob.kind = "attributed" /\ blob.text # <<>> -> blob.text
      [] blob.kind = "runs" -> blob.text
      [] blob.kind = "none" -> ogDescription
      [] OTHER -> <<>>

\* the description after the ytInitialData attempt
BlobDescription(blob, ogDescription) ==
    CASE blob.kind = "attributed" /\ blob.text # <<>> -> blob.text
      [] blob.kind = "runs" -> blob.text
      [] OTHER -> ogDescription

\* let metadata = { title: 'Unknown Title', channel: 'YouTube', description: '' }
DefaultMetadata ==
    [isNull |-> FALSE, title |-> UnknownTitle, channel |-> DefaultChannel,
     description |-> <<>>]

NullMetadata == [isNull |-> TRUE, title |-> <<>>, channel |-> <<>>, description |-> <<>>]

\* step 1: the oEmbed request
OembedStep(metadata, oembed) ==
    IF oembed.ok
    THEN [metadata EXCEPT !.title = OrElse(oembed.title, metadata.title),
                          !.channel = OrElse(oembed.author_name, metadata.channel)]
    ELSE metadata

\* step 2, title: filled from the page only while it is the default
ScrapeTitle(title, scrape) ==
    IF title = UnknownTitle
    THEN OrElse(scrape.ogTitle, OrElse(scrape.docTitle, title))
    ELSE title

\* step 2, channel: filled from the page only while it is the default
ScrapeChannel(channel, scrape) ==
    IF channel = DefaultChannel
    THEN OrElse(scrape.itempropName, channel)
    ELSE channel

\* step 2: the request of the watch page
ScrapeStep(metadata, scrape) ==
    IF scrape.ok
    THEN [metadata EXCEPT !.title = ScrapeTitle(metadata.title, scrape),
                          !.channel = ScrapeChannel(metadata.channel, scrape),
                          !.description = BlobDescription(scrape.blob, scrape.ogDescription)]
    ELSE metadata

\* the return as it would be if one field at its default were enough for null
MetadataResultEither(metadata) ==
    IF metadata.title = UnknownTitle \/ metadata.channel = DefaultChannel
    THEN NullMetadata
    ELSE metadata

\* return null only if neither title nor channel was found
MetadataResult(metadata) ==
    IF metadata.title = UnknownTitle /\ metadata.channel = DefaultChannel
    THEN NullMetadata
    ELSE metadata

getYouTubeMetadata(oembed, scrape) ==
    MetadataResult(ScrapeStep(OembedStep(DefaultMetadata, oembed), scrape))

\* the title as it would be without the placeholder
VideoTitleNoPlaceholder(metadata, url) == metadata.title

\* title = metadata?.title || `YouTube Transcript: ${url}`
VideoTitle(metadata, url) ==
    OrElse(metadata.title, <<"YouTube Transcript: ">> \o url)

\* siteName = metadata?.channel || 'YouTube'
VideoSiteName(metadata) == OrElse(metadata.channel, DefaultChannel)

\* the initial Markdown of a video document, ending in the placeholder
InitialVideoMarkdown(title, siteName, url, description) ==
    <<"# ">> \o title \o <<"\n">>
    \o <<"**Channel:** ">> \o siteName \o <<" | **Source:** [YouTube](">> \o url \o <<")\n\n">>
    \o (IF description # <<>> THEN <<"> ">> \o description \o <<"\n\n">> ELSE <<>>)
    \o Placeholder

-----------------------------------------------------------------------------
(* Transcript *)

\* minutes = Math.floor(item.offset / 1000 / 60): the quotient offset/60000 floored
TimestampMinutes(offset) == offset \div 60000

\* the seconds without the remainder by 60
TimestampSecondsNoWrap(offset) == offset \div 1000

\* Math.floor((item.offset / 1000) % 60): the real remainder of offset/1000 by 60
\* is (offset mod 60000)/1000, floored
TimestampSeconds(offset) == (offset % 60000) \div 1000

\* `${minutes}:${seconds}` with seconds = ...toString().padStart(2, '0')
FormatTimestamp(offset) ==
    NumToString(TimestampMinutes(offset)) \o <<":">>
    \o PadStart(NumToString(TimestampSeconds(offset)), 2, "0")

\* `**${minutes}:${seconds}** - ${item.text}\n\n`
TranscriptLine(item) ==
    <<"**">> \o FormatTimestamp(item.offset) \o <<"** - ">> \o item.text \o <<"\n\n">>

RECURSIVE TranscriptLines(_)
TranscriptLines(items) ==
    IF items = <<>> THEN <<>>
    ELSE TranscriptLine(Head(items)) \o TranscriptLines(Tail(items))

\* fetchTranscriptWithTimeout: the retrieval raced against the timer.
\* fetch: [kind, items], kind "resolved", "rejected" or "pending" (not settled when
\* the timer fires).  Result: [isNull, items].
fetchTranscriptWithTimeout(fetch) ==
    IF fetch.kind = "resolved"
    THEN [isNull |-> FALSE, items |-> fetch.items]
    ELSE [isNull |-> TRUE, items |-> <<>>]

\* transcriptMarkdown of the continuation
TranscriptMarkdown(transcript) ==
    IF transcript.isNull THEN CouldNotFetchNote
    ELSE TranscriptHeading \o TranscriptLines(transcript.items)

\* currentMarkdown.replace('_Fetching transcript..._', '') + transcriptMarkdown
MergeTranscript(currentMarkdown, transcriptMarkdown) ==
    ReplaceFirst(currentMarkdown, Placeholder, <<>>) \o transcriptMarkdown

-----------------------------------------------------------------------------
(* The function-level specifications at rest *)

ExtractIdle ==
    /\ exPage = [anchors |-> <<>>, imgs |-> <<>>]
    /\ exPc = "idle"
    /\ exLinks = [links |-> <<>>]
    /\ exImages = [images |-> <<>>]

WikiIdle ==
    /\ wkUrl = <<>>
    /\ wkPage = [infoboxes |-> <<>>, categoryLinks |-> <<>>, refList |-> <<>>]
    /\ wkPc = "idle"
    /\ wkWikipedia = [isNull |-> TRUE]
    /\ wkResponse = [hasWikipedia |-> FALSE]

MarkdownIdle ==
    /\ mdNodes = <<>>
    /\ mdHandler = "none"
    /\ mdPc = "idle"
    /\ mdOut = <<>>

TimeIdle ==
    /\ tsItem = [offset |-> 0, text |-> <<>>]
    /\ tsPc = "idle"
    /\ tsOut = <<>>

PageIdle ==
    /\ pgHandler = "none"
    /\ pgServer = [kind |-> "none"]
    /\ pgNow = 0
    /\ pgPc = "idle"
    /\ pgTimer = "none"
    /\ pgResponse = [status |-> 0, saved |-> FALSE]

MetaIdle ==
    /\ ytOembed = OembedFailed
    /\ ytScrape = ScrapeFailed
    /\ ytPc = "idle"
    /\ ytMetadata = NullMetadata
    /\ ytInFlight = {}

RaceIdle ==
    /\ rcEndpoint = "none"
    /\ rcFetch = [kind |-> "none", at |-> 0]
    /\ rcNow = 0
    /\ rcPc = "idle"
    /\ rcTimer = "none"
    /\ rcTranscript = [isNull |-> TRUE, items |-> <<>>]
    /\ rcResponse = [status |-> 0, markdown |-> <<>>]

NoGenericOut ==
    [headings |-> <<>>, links |-> <<>>, images |-> <<>>, wikipedia |-> <<>>,
     article |-> <<>>]

GenericIdle ==
    /\ gnPage = [url |-> <<>>, html |-> <<>>]
    /\ gnDoc = <<>>
    /\ gnStep = 0
    /\ gnOut = NoGenericOut

\* no history request was sent
HistoryIdle ==
    /\ hsPc = "idle"
    /\ hsData = <<>>

\* the page fetch, the metadata resolver, the transcript race, the generic
\* branch and the history load at rest
LaterIdle == PageIdle /\ MetaIdle /\ RaceIdle /\ GenericIdle /\ HistoryIdle

PureIdle == ExtractIdle /\ WikiIdle /\ MarkdownIdle /\ TimeIdle /\ LaterIdle

FlowIdle ==
    /\ db = <<>>
    /\ procs = <<>>
    /\ conts = <<>>
    /\ clientKind = "Home"
    /\ documents = <<>>
    /\ selectedDocId = [kind |-> "none", n |-> 0]
    /\ tasks = <<>>

FirstIdle == FlowIdle /\ HistoryIdle /\ ExtractIdle /\ WikiIdle /\ MarkdownIdle /\ TimeIdle

-----------------------------------------------------------------------------
(* Inputs of the request flow *)

FreeLimit == 20

\* what the two metadata sub-fetches of a video request can return
FlowOembed ==
    { OembedFailed,
      [ok |-> TRUE, title |-> <<"Some Talk">>, author_name |-> <<"Some Channel">>],
      [ok |-> TRUE, title |-> Placeholder, author_name |-> <<"Some Channel">>] }

FlowScrape ==
    { ScrapeFailed }
    \cup { [ScrapeFailed EXCEPT !.ok = TRUE, !.ogDescription = d] :
             d \in {<<"About this talk">>} }

\* what the page fetch + article extraction of a generic request can give
PageOutcomes == {"fetchFailed", "noArticle", "article"}
\* content (HTML) as a sequence of blocks [tag, text]: "h1", "p", "blockquote",
\* "channel" (<p><strong>Channel:</strong> text</p>) and "em" (<p><em>text</em></p>)
Block(tag, text) == [tag |-> tag, text |-> text]

\* the Markdown TurndownService gives for one block (headingStyle 'atx',
\* emDelimiter '*')
BlockMarkdown(block) ==
    CASE block.tag = "h1" -> <<"# ">> \o block.text
      [] block.tag = "channel" -> <<"**Channel:** ">> \o block.text
      [] block.tag = "blockquote" -> <<"> ">> \o block.text
      [] block.tag = "em" -> <<"*">> \o block.text \o <<"*">>
      [] OTHER -> block.text

\* the Markdown TurndownService gives for a content: the blocks, a blank line
\* between them
RECURSIVE ContentMarkdown(_)
ContentMarkdown(content) ==
    IF content = <<>> THEN <<>>
    ELSE IF Len(content) = 1 THEN BlockMarkdown(content[1])
    ELSE BlockMarkdown(content[1]) \o <<"\n\n">> \o ContentMarkdown(Tail(content))

\* markup that runs script when the text is put into a page
ActiveMarkup == {"<script>alert(1)</script>", "<img src=x onerror=alert(1)>"}

IsInert(token) == token \notin ActiveMarkup

\* DOMPurify.sanitize(html): the text without its active markup
DOMPurifySanitize(html) == SelectSeq(html, IsInert)

\* the text of the page the generic request fetches
PageHtml == <<"<script>alert(1)</script>", "Article body">>

\* article.content of the generic page: the article Readability finds in the
\* parse of the sanitized html
ArticleContent == <<Block("p", DOMPurifySanitize(PageHtml))>>

\* markdown = turndownService.turndown(article.content)
ArticleMarkdown == ContentMarkdown(ArticleContent)

\* content of the video branch: title, channel, description if any, and the
\* fetching line
VideoContent(title, siteName, description) ==
    <<Block("h1", title), Block("channel", siteName)>>
    \o (IF description # <<>> THEN <<Block("blockquote", description)>> ELSE <<>>)
    \o <<Block("em", <<"Fetching transcript...">>)>>
ArticleTitle == <<"Article">>

Segment(offset, text) == [offset |-> offset, text |-> text]

\* what YoutubeTranscript.fetchTranscript can do before the timer fires
TranscriptFetches ==
    { [kind |-> "pending", items |-> <<>>],
      [kind |-> "rejected", items |-> <<>>],
      [kind |-> "resolved", items |-> <<>>],
      [kind |-> "resolved", items |-> <<Segment(125000, <<"hello">>)>>] }

\* rows present before the modelled requests start: an empty table, or a free user
\* one document short of the limit
OldRow == [userId |-> "u1", url |-> PageUrl, markdown |-> ArticleMarkdown]
InitialRowCounts == {0, FreeLimit - 1}

-----------------------------------------------------------------------------
(* The persistence store *)

\* prisma.document.count({ where: { userId } })
CountDocuments(rows, userId) == Cardinality({i \in 1..Len(rows) : rows[i].userId = userId})

\* prisma.document.findUnique({ where: { id } })
DocumentExists(rows, id) == id.kind = "db" /\ id.n \in 1..Len(rows)

-----------------------------------------------------------------------------
(* Request records *)

IdleProc ==
    [pc |-> "idle", user |-> NoUser, url |-> NoUrl, status |-> 0, id |-> NoId,
     title |-> <<>>, siteName |-> <<>>, markdown |-> <<>>, needsTranscript |-> FALSE,
     fetched |-> FALSE, warning |-> FALSE, dbFailed |-> FALSE, metaNull |-> FALSE,
     content |-> <<>>]

IdleCont ==
    [pc |-> "idle", user |-> NoUser, docId |-> NoId, url |-> NoUrl, status |-> 0,
     docMarkdown |-> <<>>, transcript |-> [isNull |-> TRUE, items |-> <<>>],
     markdown |-> <<>>]

IdleTask == [pc |-> "none", docId |-> NoId, url |-> NoUrl, proc |-> 0, cont |-> 0]

\* the lowest free slot (slots are interchangeable)
FreeProc == {p \in 1..MaxProc : procs[p].pc = "idle" /\ \A q \in 1..(p - 1) : procs[q].pc # "idle"}
FreeCont == {c \in 1..MaxCont : conts[c].pc = "idle" /\ \A q \in 1..(c - 1) : conts[q].pc # "idle"}
FreeTask == {k \in 1..MaxTasks : tasks[k].pc = "none" /\ \A q \in 1..(k - 1) : tasks[q].pc # "none"}

ReceivedProc(user, url) == [IdleProc EXCEPT !.pc = "received", !.user = user, !.url = url]
ReceivedCont(user, docId, url) ==
    [IdleCont EXCEPT !.pc = "received", !.user = user, !.docId = docId, !.url = url]

InitFlow ==
    /\ \E n \in InitialRowCounts : db = [i \in 1..n |-> OldRow]
    /\ procs = [p \in 1..MaxProc |-> IdleProc]
    /\ conts = [c \in 1..MaxCont |-> IdleCont]
    /\ clientKind \in {"Home", "Dashboard"}
    /\ documents = <<>>
    /\ selectedDocId = NoId
    /\ tasks = [k \in 1..MaxTasks |-> IdleTask]
    /\ PureIdle

-----------------------------------------------------------------------------
(* POST /api/processor, two-phase version with accounts and persistence *)

ProcRespond(r, status) == [r EXCEPT !.pc = "done", !.status = status]

\* steps 1-3 on request r: auth check, limit check (reads the count), body parse
ProcChecked(r) ==
    IF r.user = NoUser THEN ProcRespond(r, 401)
    ELSE IF ~IsPro(r.user) /\ CountDocuments(db, r.user) >= FreeLimit
         THEN ProcRespond(r, 403)
    ELSE IF r.url = NoUrl THEN ProcRespond(r, 400)
    ELSE [r EXCEPT !.pc = "checked"]

\* a request of the client page reaches the handler
ProcCheck(p) ==
    /\ procs[p].pc = "received"
    /\ procs' = [procs EXCEPT ![p] = ProcChecked(procs[p])]
    /\ UNCHANGED <<db, conts, clientKind, documents, selectedDocId, tasks, pureVars>>

\* a request sent by something other than the modelled client page reaches the
\* handler
ApiProcess(user, url) ==
    /\ \E p \in FreeProc : procs' = [procs EXCEPT ![p] = ProcChecked(ReceivedProc(user, url))]
    /\ UNCHANGED <<db, conts, clientKind, documents, selectedDocId, tasks, pureVars>>

\* step 6 as it would be if a failed create were answered with an error
ProcSaveAborts(p, r, dbOk) ==
    IF dbOk
    THEN /\ db' = Append(db, [userId |-> r.user, url |-> r.url, markdown |-> r.markdown])
         /\ procs' = [procs EXCEPT ![p] =
               [r EXCEPT !.pc = "done", !.status = 200, !.id = DbId(Len(db) + 1)]]
    ELSE /\ db' = db
         /\ procs' = [procs EXCEPT ![p] =
               [procs[p] EXCEPT !.pc = "done", !.status = 500, !.dbFailed = TRUE]]

\* step 6: prisma.document.create and the response; dbOk = the create succeeded.
\* dbFailed records that the create threw; metaNull (set in the video branch)
\* records that the metadata resolver returned null.
ProcSave(p, r, dbOk) ==
    IF dbOk
    THEN /\ db' = Append(db, [userId |-> r.user, url |-> r.url, markdown |-> r.markdown])
         /\ procs' = [procs EXCEPT ![p] =
               [r EXCEPT !.pc = "done", !.status = 200, !.id = DbId(Len(db) + 1)]]
    ELSE /\ db' = db
         /\ procs' = [procs EXCEPT ![p] =
               [r EXCEPT !.pc = "done", !.status = 200, !.id = TempId(p), !.warning = TRUE,
                         !.dbFailed = TRUE]]

\* what the scrape fetch(url) of the resolver can give: fetch(url) throws on an
\* url it cannot parse
ScrapesOf(url) == IF IsAbsoluteUrl(url) THEN FlowScrape ELSE {ScrapeFailed}

\* what fetch(url) and the article extraction can give; on an url fetch cannot
\* parse it throws before any request is sent
PageOutcomesOf(url) == IF IsAbsoluteUrl(url) THEN PageOutcomes ELSE {"fetchFailed"}

\* step 5, video branch, then step 6, with oEmbed answers drawn from oembeds; the
\* oEmbed request is always sent
ProcRunVideoFrom(p, oembeds) ==
    /\ procs[p].pc = "checked"
    /\ isYoutubeUrl(procs[p].url)
    /\ \E oembed \in oembeds, scrape \in ScrapesOf(procs[p].url), dbOk \in BOOLEAN :
          LET metadata == getYouTubeMetadata(oembed, scrape)
              title == VideoTitle(metadata, procs[p].url)
              siteName == VideoSiteName(metadata)
              r == [procs[p] EXCEPT
                      !.title = title, !.siteName = siteName,
                      !.markdown = InitialVideoMarkdown(title, siteName, procs[p].url,
                                                        metadata.description),
                      !.content = VideoContent(title, siteName, metadata.description),
                      !.needsTranscript = TRUE, !.fetched = TRUE,
                      !.metaNull = metadata.isNull]
          IN  ProcSave(p, r, dbOk)
    /\ UNCHANGED <<conts, clientKind, documents, selectedDocId, tasks, pureVars>>

ProcRunVideo(p) == ProcRunVideoFrom(p, FlowOembed)

\* step 5, generic branch, then step 6
ProcRunPage(p) ==
    /\ procs[p].pc = "checked"
    /\ ~isYoutubeUrl(procs[p].url)
    /\ \E outcome \in PageOutcomesOf(procs[p].url), dbOk \in BOOLEAN :
          IF outcome = "article"
          THEN ProcSave(p, [procs[p] EXCEPT !.title = ArticleTitle,
                                            !.siteName = <<"example.com">>,
                                            !.markdown = ArticleMarkdown,
                                            !.content = ArticleContent,
                                            !.fetched = TRUE], dbOk)
          ELSE /\ procs' = [procs EXCEPT ![p] =
                     [procs[p] EXCEPT !.pc = "done", !.status = 422,
                                      !.fetched = IsAbsoluteUrl(procs[p].url)]]
               /\ db' = db
    /\ UNCHANGED <<conts, clientKind, documents, selectedDocId, tasks, pureVars>>

-----------------------------------------------------------------------------
(* POST /api/processor/transcript, the continuation on a stored document *)

ContRespond(r, status) == [r EXCEPT !.pc = "done", !.status = status]

\* the checks as they would be without the ownership test
ContCheckedNoOwner(r) ==
    IF r.user = NoUser THEN ContRespond(r, 401)
    ELSE IF r.docId = NoId \/ r.url = NoUrl THEN ContRespond(r, 400)
    ELSE IF ~DocumentExists(db, r.docId) THEN ContRespond(r, 404)
    ELSE [r EXCEPT !.pc = "fetching", !.docMarkdown = db[r.docId.n].markdown]

\* auth, body, findUnique, ownership; the row read here is what the update uses
ContChecked(r) ==
    IF r.user = NoUser THEN ContRespond(r, 401)
    ELSE IF r.docId = NoId \/ r.url = NoUrl THEN ContRespond(r, 400)
    ELSE IF ~DocumentExists(db, r.docId) THEN ContRespond(r, 404)
    ELSE IF db[r.docId.n].userId # r.user THEN ContRespond(r, 403)
    ELSE [r EXCEPT !.pc = "fetching", !.docMarkdown = db[r.docId.n].markdown]

\* a continuation request of the client page reaches the handler
ContCheck(c) ==
    /\ conts[c].pc = "received"
    /\ conts' = [conts EXCEPT ![c] = ContChecked(conts[c])]
    /\ UNCHANGED <<db, procs, clientKind, documents, selectedDocId, tasks, pureVars>>

\* a continuation request sent by something other than the modelled client page
ApiTranscript(user, docId, url) ==
    /\ \E c \in FreeCont : conts' = [conts EXCEPT ![c] = ContChecked(ReceivedCont(user, docId, url))]
    /\ UNCHANGED <<db, procs, clientKind, documents, selectedDocId, tasks, pureVars>>

\* the transcript fetch settles (or the timer fires), then prisma.document.update
ContFinish(c) ==
    /\ conts[c].pc = "fetching"
    /\ \E fetch \in TranscriptFetches :
          LET transcript == fetchTranscriptWithTimeout(fetch)
              newMarkdown == MergeTranscript(conts[c].docMarkdown,
                                             TranscriptMarkdown(transcript))
          IN  /\ db' = [db EXCEPT ![conts[c].docId.n].markdown = newMarkdown]
              /\ conts' = [conts EXCEPT ![c] =
                    [conts[c] EXCEPT !.pc = "done", !.status = 200,
                                     !.transcript = transcript,
                                     !.markdown = newMarkdown]]
    /\ UNCHANGED <<procs, clientKind, documents, selectedDocId, tasks, pureVars>>

-----------------------------------------------------------------------------
(* The browser client: Home (two-phase page) and Dashboard (history page) *)

ClientUrls == {VideoUrl, PageUrl}

NewDocItem(id, url) ==
    [id |-> id, url |-> url, status |-> "pending", markdown |-> <<>>,
     needsTranscript |-> FALSE]

\* setDocuments(prev => prev.map(d => d.id === id ? { ...d, status } : d))
updateDocStatus(docs, id, status) ==
    [i \in DOMAIN docs |-> IF docs[i].id = id THEN [docs[i] EXCEPT !.status = status]
                           ELSE docs[i]]

\* prev.map(d => d.id === id ? { ...d, id: newId, status, result } : d)
SetResult(docs, id, newId, status, markdown, needsTranscript) ==
    [i \in DOMAIN docs |->
        IF docs[i].id = id
        THEN [docs[i] EXCEPT !.id = newId, !.status = status, !.markdown = markdown,
                             !.needsTranscript = needsTranscript]
        ELSE docs[i]]

\* handleCompile for one URL, up to the first await of processDoc: the item is
\* added, marked processing, and the request is sent
Compile(url) ==
    /\ \E k \in FreeTask, p \in FreeProc :
          LET doc == NewDocItem(ClientId(k), url)
              added == IF clientKind = "Home" THEN documents \o <<doc>>
                       ELSE <<doc>> \o documents
          IN  /\ documents' = updateDocStatus(added, doc.id, "processing")
              /\ tasks' = [tasks EXCEPT ![k] =
                    [pc |-> "awaitProc", docId |-> doc.id, url |-> url, proc |-> p,
                     cont |-> 0]]
              /\ procs' = [procs EXCEPT ![p] = ReceivedProc(ClientUser, url)]
    /\ UNCHANGED <<db, conts, clientKind, selectedDocId, pureVars>>

\* processDoc after the first response: the request failed
ClientProcError(k) ==
    /\ tasks[k].pc = "awaitProc"
    /\ procs[tasks[k].proc].pc = "done"
    /\ procs[tasks[k].proc].status # 200
    /\ documents' = updateDocStatus(documents, tasks[k].docId, "error")
    /\ tasks' = [tasks EXCEPT ![k].pc = "done"]
    /\ UNCHANGED <<db, procs, conts, clientKind, selectedDocId, pureVars>>

\* Home: the response says needsTranscript: show the partial result, call the
\* continuation
HomeStartTranscript(k) ==
    /\ clientKind = "Home"
    /\ tasks[k].pc = "awaitProc"
    /\ LET data == procs[tasks[k].proc]
       IN  /\ data.pc = "done" /\ data.status = 200
           /\ data.needsTranscript /\ data.id # NoId
           /\ documents' = SetResult(documents, tasks[k].docId, tasks[k].docId,
                                     "processing-transcript", data.markdown,
                                     data.needsTranscript)
           /\ selectedDocId' = IF selectedDocId = NoId THEN tasks[k].docId
                               ELSE selectedDocId
           /\ \E c \in FreeCont :
                 /\ conts' = [conts EXCEPT ![c] =
                       ReceivedCont(ClientUser, data.id, tasks[k].url)]
                 /\ tasks' = [tasks EXCEPT ![k].pc = "awaitCont", ![k].cont = c]
    /\ UNCHANGED <<db, procs, clientKind, pureVars>>

\* Home: the continuation answered
HomeTranscriptDone(k) ==
    /\ clientKind = "Home"
    /\ tasks[k].pc = "awaitCont"
    /\ LET data == procs[tasks[k].proc]
           transcriptData == conts[tasks[k].cont]
       IN  /\ transcriptData.pc = "done"
           /\ documents' =
                 IF transcriptData.status = 200 /\ transcriptData.markdown # <<>>
                 THEN SetResult(documents, tasks[k].docId, tasks[k].docId, "success",
                                transcriptData.markdown, data.needsTranscript)
                 ELSE SetResult(documents, tasks[k].docId, tasks[k].docId, "success",
                                data.markdown, data.needsTranscript)
    /\ tasks' = [tasks EXCEPT ![k].pc = "done"]
    /\ UNCHANGED <<db, procs, conts, clientKind, selectedDocId, pureVars>>

\* Home: standard success (no transcript phase)
HomeSuccess(k) ==
    /\ clientKind = "Home"
    /\ tasks[k].pc = "awaitProc"
    /\ LET data == procs[tasks[k].proc]
       IN  /\ data.pc = "done" /\ data.status = 200
           /\ ~(data.needsTranscript /\ data.id # NoId)
           /\ documents' = SetResult(documents, tasks[k].docId, tasks[k].docId,
                                     "success", data.markdown, data.needsTranscript)
    /\ selectedDocId' = IF selectedDocId = NoId THEN tasks[k].docId ELSE selectedDocId
    /\ tasks' = [tasks EXCEPT ![k].pc = "done"]
    /\ UNCHANGED <<db, procs, conts, clientKind, pureVars>>

\* Dashboard: success; the item takes the id the server returned
DashboardSuccess(k) ==
    /\ clientKind = "Dashboard"
    /\ tasks[k].pc = "awaitProc"
    /\ LET data == procs[tasks[k].proc]
           newId == IF data.id # NoId THEN data.id ELSE tasks[k].docId
       IN  /\ data.pc = "done" /\ data.status = 200
           /\ documents' = SetResult(documents, tasks[k].docId, newId, "success",
                                     data.markdown, data.needsTranscript)
           /\ selectedDocId' = IF selectedDocId # NoId THEN selectedDocId ELSE newId
    /\ tasks' = [tasks EXCEPT ![k].pc = "done"]
    /\ UNCHANGED <<db, procs, conts, clientKind, pureVars>>

-----------------------------------------------------------------------------
(* The server under direct API calls *)

\* the requests callers send: no session, no url, a video, a page, a Pro user
ProcessCalls ==
    { <<NoUser, VideoUrl>>, <<"u1", NoUrl>>, <<"u1", VideoUrl>>, <<"u1", PageUrl>>,
      <<"u2", VideoUrl>> }

\* ids a caller can name: none, an unsaved document's temp id, the newest rows
KnownDocIds ==
    {NoId, TempId(1)} \cup {DbId(n) : n \in (1..Len(db)) \cap {Len(db) - 1, Len(db)}}

TranscriptCalls ==
    {<<"u1", d, VideoUrl>> : d \in KnownDocIds}
    \cup {<<u, DbId(Len(db)), VideoUrl>> : u \in IF Len(db) > 0 THEN {NoUser, "u2"} ELSE {}}
    \cup {<<"u1", DbId(Len(db)), NoUrl>> : u \in IF Len(db) > 0 THEN {"u1"} ELSE {}}

InitServer == InitFlow /\ clientKind = "Home"

NextServer ==
    \/ \E call \in ProcessCalls : ApiProcess(call[1], call[2])
    \/ \E p \in 1..MaxProc : ProcRunVideo(p)
    \/ \E p \in 1..MaxProc : ProcRunPage(p)
    \/ \E call \in TranscriptCalls : ApiTranscript(call[1], call[2], call[3])
    \/ \E c \in 1..MaxCont : ContFinish(c)

SpecServer == InitServer /\ [][NextServer]_vars

-----------------------------------------------------------------------------
(* The continuation under direct API calls on the rows of the store *)

NextContinuation ==
    \/ \E call \in TranscriptCalls : ApiTranscript(call[1], call[2], call[3])
    \/ \E c \in 1..MaxCont : ContFinish(c)

SpecContinuation == InitServer /\ [][NextContinuation]_vars

-----------------------------------------------------------------------------
(* The processing endpoint under any request body *)

\* the bodies callers send: url missing, not absolute (video and page), absolute
InputCalls ==
    { <<NoUser, VideoUrl>>, <<"u1", NoUrl>>, <<"u1", RelativeVideoUrl>>,
      <<"u1", RelativePageUrl>>, <<"u1", VideoUrl>>, <<"u1", PageUrl>> }

\* the oEmbed answers, one of them for a video whose title is markup
InputOembed ==
    FlowOembed
    \cup { [ok |-> TRUE, title |-> <<"<img src=x onerror=alert(1)>">>,
            author_name |-> <<"Some Channel">>] }

NextInput ==
    \/ \E call \in InputCalls : ApiProcess(call[1], call[2])
    \/ \E p \in 1..MaxProc : ProcRunVideoFrom(p, InputOembed)
    \/ \E p \in 1..MaxProc : ProcRunPage(p)

SpecInput == InitServer /\ [][NextInput]_vars

-----------------------------------------------------------------------------
(* The client page driving the server *)

NextClient ==
    \/ \E url \in ClientUrls : Compile(url)
    \/ \E p \in 1..MaxProc : ProcCheck(p)
    \/ \E p \in 1..MaxProc : ProcRunVideo(p)
    \/ \E p \in 1..MaxProc : ProcRunPage(p)
    \/ \E c \in 1..MaxCont : ContCheck(c)
    \/ \E c \in 1..MaxCont : ContFinish(c)
    \/ \E k \in 1..MaxTasks : ClientProcError(k)
    \/ \E k \in 1..MaxTasks : HomeStartTranscript(k)
    \/ \E k \in 1..MaxTasks : HomeTranscriptDone(k)
    \/ \E k \in 1..MaxTasks : HomeSuccess(k)
    \/ \E k \in 1..MaxTasks : DashboardSuccess(k)

SpecClient == InitFlow /\ [][NextClient]_vars

-----------------------------------------------------------------------------
(* Structured extraction of the generic page mode: links and images.         *)
(* A URL or an href is a token sequence: an origin token ("https://host"),   *)
(* then path tokens, then "#" and a fragment token.                          *)

LinkCap == 100

Origins == {"https://example.com", "https://other.org"}
MalformedTokens == {"http://["}
Whitespace == {" ", "\n"}

BaseUrl == <<"https://example.com", "/a">>

\* s.startsWith(pat)
StartsWith(s, pat) == Len(s) >= Len(pat) /\ SubSeq(s, 1, Len(pat)) = pat

\* s.trim()
RECURSIVE TrimStart(_)
TrimStart(s) == IF s # <<>> /\ Head(s) \in Whitespace THEN TrimStart(Tail(s)) ELSE s
RECURSIVE TrimEnd(_)
TrimEnd(s) ==
    IF s # <<>> /\ s[Len(s)] \in Whitespace THEN TrimEnd(SubSeq(s, 1, Len(s) - 1)) ELSE s
Trim(s) == TrimEnd(TrimStart(s))

\* the URL without its fragment
WithoutFragment(url) ==
    LET i == IndexOf(url, <<"#">>) IN IF i = 0 THEN url ELSE SubSeq(url, 1, i - 1)

\* new URL(href, baseUrl).href: [ok, href]; ok = FALSE when the constructor throws
ResolveUrl(href, baseUrl) ==
    IF href = <<>> THEN [ok |-> TRUE, href |-> baseUrl]
    ELSE IF \E i \in 1..Len(href) : href[i] \in MalformedTokens THEN [ok |-> FALSE, href |-> <<>>]
    ELSE IF href[1] \in Origins THEN [ok |-> TRUE, href |-> href]
    ELSE IF href[1] = "#" THEN [ok |-> TRUE, href |-> WithoutFragment(baseUrl) \o href]
    ELSE [ok |-> TRUE, href |-> <<baseUrl[1]>> \o href]

\* the state of the loop of extractLinks; seenHrefs (a Set in the code) is kept as
\* the list of its members in insertion order; `from` is not program state: it
\* records, for each entry of links, the position of the anchor that produced it
EmptyLinks ==
    [links |-> <<>>, seenHrefs |-> <<>>, from |-> <<>>, stopped |-> FALSE, threw |-> FALSE]

\* seenHrefs.has(href)
SeenHas(seenHrefs, href) == \E j \in 1..Len(seenHrefs) : seenHrefs[j] = href

\* the loop body without the seenHrefs test
LinkStepNoDedup(acc, el, i, baseUrl) ==
    IF acc.stopped \/ acc.threw THEN acc
    ELSE IF Len(acc.links) >= LinkCap THEN [acc EXCEPT !.stopped = TRUE]
    ELSE IF el.href = <<>> THEN acc
    ELSE LET r == ResolveUrl(el.href, baseUrl)
             text == Trim(el.text)
         IN  IF ~r.ok THEN acc
             ELSE IF text # <<>> /\ r.href # <<>>
                  THEN [acc EXCEPT !.seenHrefs = Append(@, r.href),
                                   !.links = Append(@, [text |-> text, href |-> r.href]),
                                   !.from = Append(@, i)]
                  ELSE [acc EXCEPT !.seenHrefs = Append(@, r.href)]

\* the loop body without the try/catch around new URL
LinkStepNoCatch(acc, el, i, baseUrl) ==
    IF acc.stopped \/ acc.threw THEN acc
    ELSE IF Len(acc.links) >= LinkCap THEN [acc EXCEPT !.stopped = TRUE]
    ELSE IF el.href = <<>> THEN acc
    ELSE LET r == ResolveUrl(el.href, baseUrl)
             text == Trim(el.text)
         IN  IF ~r.ok THEN [acc EXCEPT !.threw = TRUE]
             ELSE IF StartsWith(r.href, <<"#">>) \/ SeenHas(acc.seenHrefs, r.href) THEN acc
             ELSE IF text # <<>> /\ r.href # <<>>
                  THEN [acc EXCEPT !.seenHrefs = Append(@, r.href),
                                   !.links = Append(@, [text |-> text, href |-> r.href]),
                                   !.from = Append(@, i)]
                  ELSE [acc EXCEPT !.seenHrefs = Append(@, r.href)]

\* one iteration of the loop of extractLinks on the i-th anchor el
LinkStep(acc, el, i, baseUrl) ==
    IF acc.stopped \/ acc.threw THEN acc
    ELSE IF Len(acc.links) >= LinkCap THEN [acc EXCEPT !.stopped = TRUE]
    ELSE IF el.href = <<>> THEN acc
    ELSE LET r == ResolveUrl(el.href, baseUrl)
             text == Trim(el.text)
         IN  IF ~r.ok THEN acc
             ELSE IF StartsWith(r.href, <<"#">>) \/ SeenHas(acc.seenHrefs, r.href) THEN acc
             ELSE IF text # <<>> /\ r.href # <<>>
                  THEN [acc EXCEPT !.seenHrefs = Append(@, r.href),
                                   !.links = Append(@, [text |-> text, href |-> r.href]),
                                   !.from = Append(@, i)]
                  ELSE [acc EXCEPT !.seenHrefs = Append(@, r.href)]

\* the iterations lo..hi of the loop, in order (split in halves to keep the
\* evaluation shallow); after the break or a throw no iteration runs
RECURSIVE LinkLoop(_, _, _, _, _)
LinkLoop(acc, anchors, lo, hi, baseUrl) ==
    IF lo > hi THEN acc
    ELSE IF lo = hi THEN LinkStep(acc, anchors[lo], lo, baseUrl)
    ELSE LET mid == (lo + hi) \div 2
             left == LinkLoop(acc, anchors, lo, mid, baseUrl)
         IN  IF left.stopped \/ left.threw THEN left
             ELSE LinkLoop(left, anchors, mid + 1, hi, baseUrl)

\* extractLinks(doc, baseUrl); anchors = doc.querySelectorAll('a[href]')
extractLinks(anchors, baseUrl) == LinkLoop(EmptyLinks, anchors, 1, Len(anchors), baseUrl)

EmptyImages == [images |-> <<>>, threw |-> FALSE]

\* the callback of imgElements.forEach in extractImages
ImageStep(acc, el, baseUrl) ==
    IF acc.threw THEN acc
    ELSE IF el.src = <<>> THEN acc
    ELSE LET r == ResolveUrl(el.src, baseUrl)
         IN  IF ~r.ok THEN acc
             ELSE [acc EXCEPT !.images = Append(@, [src |-> r.href, alt |-> el.alt])]

RECURSIVE ImageLoop(_, _, _, _)
ImageLoop(acc, imgs, i, baseUrl) ==
    IF i > Len(imgs) THEN acc
    ELSE ImageLoop(ImageStep(acc, imgs[i], baseUrl), imgs, i + 1, baseUrl)

\* extractImages(doc, baseUrl); imgs = doc.querySelectorAll('img[src]')
extractImages(imgs, baseUrl) == ImageLoop(EmptyImages, imgs, 1, baseUrl)

-----------------------------------------------------------------------------
(* The pages structured extraction is run on *)

MaxSpecial == 2
MaxBulk == 101
MaxImgs == 2

Anchor(href, text) == [href |-> href, text |-> text]
Img(src, alt) == [src |-> src, alt |-> alt]

\* anchors with something particular: fragment-only, unresolvable, no text (same
\* target as the first plain anchor), absolute form of the first plain anchor's
\* target, empty href, another site with text to trim
SpecialAnchors ==
    { Anchor(<<"#", "top">>, <<"Top">>),
      Anchor(<<"http://[">>, <<"Bad">>),
      Anchor(<<"/p", "1">>, <<" ">>),
      Anchor(<<"https://example.com", "/p", "1">>, <<"Dup">>),
      Anchor(<<>>, <<"Empty">>),
      Anchor(<<"https://other.org", "/x">>, <<" ", "Other", "\n">>) }

\* n plain anchors with n distinct targets /p1 ... /pn
PlainAnchors(n) == [i \in 1..n |-> Anchor(<<"/p">> \o NumToString(i), <<"link">>)]

SeqsUpTo(S, n) == UNION {[1..k -> S] : k \in 0..n}

\* what may follow the run of plain anchors: a new target, a fragment-only one
TrailingAnchors ==
    { Anchor(<<"https://other.org", "/x">>, <<" ", "Other", "\n">>),
      Anchor(<<"#", "top">>, <<"Top">>) }

BulkSizes == (0..1) \cup ((LinkCap - 1)..MaxBulk)

SomeImgs ==
    { Img(<<"/i.png">>, <<"pic">>),
      Img(<<"https://other.org", "/j.png">>, <<>>),
      Img(<<"http://[">>, <<"bad">>),
      Img(<<>>, <<"nosrc">>) }

ImgLists == SeqsUpTo(SomeImgs, MaxImgs)

\* a page is some particular anchors, then either a run of plain anchors and one
\* more particular anchor, or some images
InitExtract ==
    /\ \E pre \in SeqsUpTo(SpecialAnchors, MaxSpecial) :
          \/ \E n \in BulkSizes, post \in SeqsUpTo(TrailingAnchors, 1) :
                exPage = [anchors |-> pre \o PlainAnchors(n) \o post, imgs |-> <<>>]
          \/ \E i \in ImgLists : exPage = [anchors |-> pre, imgs |-> i]
    /\ exPc = "parsed"
    /\ exLinks = EmptyLinks
    /\ exImages = EmptyImages
    /\ FlowIdle /\ WikiIdle /\ MarkdownIdle /\ TimeIdle /\ LaterIdle

\* links = extractLinks(doc, url)
RunExtractLinks ==
    /\ exPc = "parsed"
    /\ exLinks' = extractLinks(exPage.anchors, BaseUrl)
    /\ exPc' = "links"
    /\ UNCHANGED <<exPage, exImages, flowVars, wikiVars, markdownVars, timeVars,
                 pageVars, metaVars, raceVars, genericVars,
                 historyVars>>

\* images = extractImages(doc, url)
RunExtractImages ==
    /\ exPc = "links"
    /\ exImages' = extractImages(exPage.imgs, BaseUrl)
    /\ exPc' = "done"
    /\ UNCHANGED <<exPage, exLinks, flowVars, wikiVars, markdownVars, timeVars,
                 pageVars, metaVars, raceVars, genericVars,
                 historyVars>>

NextExtract == RunExtractLinks \/ RunExtractImages

SpecExtract == InitExtract /\ [][NextExtract]_vars

-----------------------------------------------------------------------------
(* Wikipedia extraction of the generic page mode.  A url is the scheme token, *)
(* the host's labels, then path tokens.                                       *)

RefCap == 50

WikipediaUrl == <<"https://", "en.", "wikipedia.org", "/wiki/Ada">>
ArchiveUrl ==
    <<"https://", "web.archive.org", "/web/", "https://", "en.", "wikipedia.org", "/wiki/Ada">>
LookalikeUrl == <<"https://", "wikipedia.org", ".evil.example", "/">>
WikiUrls == {WikipediaUrl, ArchiveUrl, LookalikeUrl, PageUrl}

PathTokens == {"/wiki/Ada", "/web/", "/a", "/"}
SubdomainLabels == {"en."}

\* new URL(url).hostname, as its labels
Host(url) ==
    LET paths == {i \in 2..Len(url) : url[i] \in PathTokens}
        end == IF paths = {} THEN Len(url)
               ELSE (CHOOSE i \in paths : \A j \in paths : i <= j) - 1
    IN  SubSeq(url, 2, end)

\* Object.keys(o).length > 0 of the record extractWikipediaData returns
NoWikipediaData ==
    [hasInfobox |-> FALSE, infobox |-> <<>>, hasCategories |-> FALSE, categories |-> <<>>,
     hasReferences |-> FALSE, references |-> <<>>]

HasKeys(result) == result.hasInfobox \/ result.hasCategories \/ result.hasReferences

\* the assignment keeping the value the key already has
InfoboxPutFirst(infoboxData, key, value) ==
    [k \in (DOMAIN infoboxData) \cup {key} |->
        IF k \in DOMAIN infoboxData THEN infoboxData[k] ELSE value]

\* infoboxData[key] = value
InfoboxPut(infoboxData, key, value) ==
    [k \in (DOMAIN infoboxData) \cup {key} |-> IF k = key THEN value ELSE infoboxData[k]]

\* the callback of rows.forEach; th/td are the row's first header and data cell
InfoboxRow(infoboxData, row) ==
    IF row.hasTh /\ row.hasTd
    THEN LET key == Trim(row.th)
             value == Trim(row.td)
         IN  IF key # <<>> /\ value # <<>> THEN InfoboxPut(infoboxData, key, value)
             ELSE infoboxData
    ELSE infoboxData

RECURSIVE InfoboxRows(_, _)
InfoboxRows(infoboxData, rows) ==
    IF rows = <<>> THEN infoboxData
    ELSE InfoboxRows(InfoboxRow(infoboxData, Head(rows)), Tail(rows))

\* Array.from(els).map(el => el.textContent?.trim() || '').filter(t => t.length > 0)
RECURSIVE TrimmedTexts(_)
TrimmedTexts(texts) ==
    IF texts = <<>> THEN <<>>
    ELSE LET t == Trim(Head(texts))
         IN  (IF t # <<>> THEN <<t>> ELSE <<>>) \o TrimmedTexts(Tail(texts))

\* .slice(0, n)
Slice0(s, n) == SubSeq(s, 1, IF Len(s) < n THEN Len(s) ELSE n)

\* extractWikipediaData(doc); doc.infoboxes = the .infobox elements in document
\* order, each the list of its tr rows
extractWikipediaData(doc) ==
    LET infoboxData ==
            IF doc.infoboxes = <<>> THEN <<>> ELSE InfoboxRows(<<>>, doc.infoboxes[1])
        hasInfobox == doc.infoboxes # <<>> /\ DOMAIN infoboxData # {}
    IN  [hasInfobox |-> hasInfobox,
         infobox |-> IF hasInfobox THEN infoboxData ELSE <<>>,
         hasCategories |-> Len(doc.categoryLinks) > 0,
         categories |-> TrimmedTexts(doc.categoryLinks),
         hasReferences |-> Len(doc.refList) > 0,
         references |-> TrimmedTexts(Slice0(doc.refList, RefCap))]

-----------------------------------------------------------------------------
(* The pages Wikipedia extraction is run on *)

MaxRows == 5
MaxTexts == 2

Row(hasTh, th, hasTd, td) == [hasTh |-> hasTh, th |-> th, hasTd |-> hasTd, td |-> td]

\* a complete row, a complete row with the same header after trim, an empty
\* value, an empty header, no header cell, no data cell
Rows ==
    { Row(TRUE, <<"Born">>, TRUE, <<"1815">>),
      Row(TRUE, <<" ", "Born">>, TRUE, <<"London", "\n">>),
      Row(TRUE, <<"Died">>, TRUE, <<" ">>),
      Row(TRUE, <<>>, TRUE, <<"x">>),
      Row(FALSE, <<>>, TRUE, <<"y">>),
      Row(TRUE, <<"Fields">>, FALSE, <<>>) }

SecondInfobox == <<Row(TRUE, <<"Other">>, TRUE, <<"box">>)>>

Texts == {<<"Ada">>, <<" ">>, <<" ", "Maths", " ">>}

\* a Wikipedia article with an infobox of any rows (and possibly a second
\* infobox), or any of the urls with category links and references
InitWiki ==
    /\ \/ /\ wkUrl = WikipediaUrl
          /\ \E rows \in SeqsUpTo(Rows, MaxRows), more \in {<<>>, <<SecondInfobox>>} :
                wkPage = [infoboxes |-> <<rows>> \o more, categoryLinks |-> <<>>,
                          refList |-> <<>>]
       \/ /\ wkUrl \in WikiUrls
          /\ \E ibs \in {<<>>, <<SecondInfobox>>,
                          <<<<Row(TRUE, <<"Died">>, TRUE, <<" ">>)>>>>},
                c \in SeqsUpTo(Texts, MaxTexts), r \in SeqsUpTo(Texts, MaxTexts) :
                wkPage = [infoboxes |-> ibs, categoryLinks |-> c, refList |-> r]
    /\ wkPc = "parsed"
    /\ wkWikipedia = [isNull |-> TRUE, value |-> NoWikipediaData]
    /\ wkResponse = [hasWikipedia |-> FALSE, wikipedia |-> NoWikipediaData]
    /\ FlowIdle /\ ExtractIdle /\ MarkdownIdle /\ TimeIdle /\ LaterIdle

\* if (url.includes('wikipedia.org')) wikipedia = extractWikipediaData(...)
ExtractWikipedia ==
    /\ wkPc = "parsed"
    /\ wkWikipedia' =
          IF Includes(wkUrl, <<"wikipedia.org">>)
          THEN [isNull |-> FALSE, value |-> extractWikipediaData(wkPage)]
          ELSE wkWikipedia
    /\ wkPc' = "extracted"
    /\ UNCHANGED <<wkUrl, wkPage, wkResponse, flowVars, extractVars, markdownVars, timeVars,
                 pageVars, metaVars, raceVars, genericVars,
                 historyVars>>

\* ...(wikipedia && Object.keys(wikipedia).length > 0 ? { wikipedia } : {})
RespondWikipedia ==
    /\ wkPc = "extracted"
    /\ wkResponse' =
          IF ~wkWikipedia.isNull /\ HasKeys(wkWikipedia.value)
          THEN [hasWikipedia |-> TRUE, wikipedia |-> wkWikipedia.value]
          ELSE [hasWikipedia |-> FALSE, wikipedia |-> NoWikipediaData]
    /\ wkPc' = "responded"
    /\ UNCHANGED <<wkUrl, wkPage, wkWikipedia, flowVars, extractVars, markdownVars, timeVars,
                 pageVars, metaVars, raceVars, genericVars,
                 historyVars>>

NextWiki == ExtractWikipedia \/ RespondWikipedia

SpecWiki == InitWiki /\ [][NextWiki]_vars

-----------------------------------------------------------------------------
(* Markdown conversion of the article content: the image rule.  The older    *)
(* handlers add their own rule for img; the others convert images with the   *)
(* rule TurndownService has built in.                                        *)

\* node.getAttribute(name): null when the attribute is missing
NoAttr == [has |-> FALSE, value |-> <<>>]
Attr(value) == [has |-> TRUE, value |-> value]

\* node.getAttribute(name) || ''
AttrOrEmpty(attr) == IF attr.has THEN attr.value ELSE <<>>

\* the replacement of the rule added with turndownService.addRule('img', ...)
CustomImageRule(node) ==
    LET alt == AttrOrEmpty(node.alt)
        src == AttrOrEmpty(node.src)
    IN  IF src # <<>> THEN <<"![">> \o alt \o <<"](">> \o src \o <<")">> ELSE <<>>

\* the built-in rule's attribute cleaning: attribute.replace(/(\n+\s*)+/g, '\n')
RECURSIVE CleanAttribute(_)
CleanAttribute(s) ==
    IF s = <<>> THEN <<>>
    ELSE IF Head(s) = "\n" THEN <<"\n">> \o CleanAttribute(TrimStart(s))
    ELSE <<Head(s)>> \o CleanAttribute(Tail(s))

\* the built-in image rule of TurndownService
BuiltInImageRule(node) ==
    LET alt == CleanAttribute(AttrOrEmpty(node.alt))
        src == AttrOrEmpty(node.src)
        title == CleanAttribute(AttrOrEmpty(node.title))
        titlePart == IF title # <<>> THEN <<" \"">> \o title \o <<"\"">> ELSE <<>>
    IN  IF src # <<>> THEN <<"![">> \o alt \o <<"](">> \o src \o titlePart \o <<")">>
        ELSE <<>>

\* the handlers that convert a generic page
Handlers == {"part_002", "processor"}
AddsImageRule(handler) == handler = "part_002"

\* the replacement of one node (text nodes are plain words)
Replacement(node, handler) ==
    IF node.tag = "img"
    THEN IF AddsImageRule(handler) THEN CustomImageRule(node) ELSE BuiltInImageRule(node)
    ELSE node.text

\* turndownService.turndown(article.content), for inline content
RECURSIVE turndown(_, _)
turndown(nodes, handler) ==
    IF nodes = <<>> THEN <<>>
    ELSE Replacement(Head(nodes), handler) \o turndown(Tail(nodes), handler)

MaxNodes == 2

TextNode(text) ==
    [tag |-> "text", text |-> text, src |-> NoAttr, alt |-> NoAttr, title |-> NoAttr]
ImgNode(src, alt, title) ==
    [tag |-> "img", text |-> <<>>, src |-> src, alt |-> alt, title |-> title]

SrcAttrs == {NoAttr, Attr(<<>>), Attr(<<"a.png">>)}
AltAttrs == {NoAttr, Attr(<<>>), Attr(<<"pic">>), Attr(<<"two", "\n", " ", "lines">>)}
TitleAttrs == {NoAttr, Attr(<<"t">>)}

Nodes ==
    {TextNode(<<"word">>)}
    \cup {ImgNode(src, alt, title) : src \in SrcAttrs, alt \in AltAttrs, title \in TitleAttrs}

InitMarkdown ==
    /\ mdNodes \in SeqsUpTo(Nodes, MaxNodes)
    /\ mdHandler \in Handlers
    /\ mdPc = "parsed"
    /\ mdOut = <<>>
    /\ FlowIdle /\ ExtractIdle /\ WikiIdle /\ TimeIdle /\ LaterIdle

\* markdown = turndownService.turndown(article.content)
Turndown ==
    /\ mdPc = "parsed"
    /\ mdOut' = turndown(mdNodes, mdHandler)
    /\ mdPc' = "done"
    /\ UNCHANGED <<mdNodes, mdHandler, flowVars, extractVars, wikiVars, timeVars,
                 pageVars, metaVars, raceVars, genericVars,
                 historyVars>>

NextMarkdown == Turndown

SpecMarkdown == InitMarkdown /\ [][NextMarkdown]_vars

-----------------------------------------------------------------------------
(* Rendering of one transcript line *)

MaxOffsetSteps == 260

\* offsets in milliseconds: every half second up to MaxOffsetSteps half seconds,
\* the millisecond before each, and long videos around the hour
Offsets ==
    {k * 500 : k \in 0..MaxOffsetSteps}
    \cup {k * 500 - 1 : k \in 1..MaxOffsetSteps}
    \cup {599999, 600000, 3599999, 3600000, 3725000, 35999999, 36000000}

InitTime ==
    /\ \E offset \in Offsets : tsItem = [offset |-> offset, text |-> <<"hello">>]
    /\ tsPc = "fetched"
    /\ tsOut = <<>>
    /\ FlowIdle /\ ExtractIdle /\ WikiIdle /\ MarkdownIdle /\ LaterIdle

\* the callback of transcript.forEach
RenderLine ==
    /\ tsPc = "fetched"
    /\ tsOut' = TranscriptLine(tsItem)
    /\ tsPc' = "done"
    /\ UNCHANGED <<tsItem, flowVars, extractVars, wikiVars, markdownVars,
                 pageVars, metaVars, raceVars, genericVars,
                 historyVars>>

NextTime == RenderLine

SpecTime == InitTime /\ [][NextTime]_vars

-----------------------------------------------------------------------------
(* The fetch of the generic page mode, step by step.  Time is the number of  *)
(* milliseconds since the handler started; it advances only when no event of *)
(* the handler is ready to run.                                              *)

FetchTimeoutMs == 15000

\* clock steps per fetch timeout
TicksPerTimeout == 3

TickMs == FetchTimeoutMs \div TicksPerTimeout

MaxNow == 2 * FetchTimeoutMs

\* a body that never completes
Stalled == 0 - 1

PageHandlers == {"part_001", "processor", "part_002"}

\* the handlers that arm setTimeout(() => controller.abort(), 15000)
HasAbortTimer(handler) == handler # "part_002"

\* the handler that creates a row after a successful extraction
Persists(handler) == handler = "part_001"

\* the response to a rejected fetch (network error or abort)
FetchErrorStatus(handler) == IF handler = "part_002" THEN 500 ELSE 422

\* the response to a non-2xx answer of the remote server
BadStatusResponse(handler, upstream) == IF handler = "part_002" THEN upstream ELSE 422

\* the response when Readability gives no article or an article without content
NoArticleStatus == 422

UpstreamStatuses == {200, 404, 503}

HeaderTimes == {0, FetchTimeoutMs - TickMs, FetchTimeoutMs, FetchTimeoutMs + TickMs}

BodyTimes == {0, TickMs, FetchTimeoutMs, Stalled}

Articles == {"none", "empty", "ok"}

RespondingServer(headersAt, status, bodyMs, article) ==
    [kind |-> "responds", headersAt |-> headersAt, status |-> status,
     bodyMs |-> bodyMs, article |-> article]

\* a server that refuses the connection, and one that never answers
FailingServers ==
    { [kind |-> k, headersAt |-> 0, status |-> 0, bodyMs |-> 0, article |-> "none"] :
        k \in {"networkError", "silent"} }

NoPageResponse == [status |-> 0, saved |-> FALSE]

InitPage ==
    /\ pgHandler \in PageHandlers
    /\ \/ pgServer \in FailingServers
       \/ \E headersAt \in HeaderTimes, status \in UpstreamStatuses,
             bodyMs \in BodyTimes, article \in Articles :
              pgServer = RespondingServer(headersAt, status, bodyMs, article)
    /\ pgNow = 0
    /\ pgPc = "start"
    /\ pgTimer = "none"
    /\ pgResponse = NoPageResponse
    /\ FirstIdle /\ MetaIdle /\ RaceIdle /\ GenericIdle

HeadersReady ==
    /\ pgPc = "awaitHeaders"
    /\ pgServer.kind = "responds"
    /\ pgServer.headersAt <= pgNow

FetchRejectReady ==
    /\ pgPc = "awaitHeaders"
    /\ pgServer.kind = "networkError"

BodyReady ==
    /\ pgPc = "readBody"
    /\ pgServer.bodyMs # Stalled
    /\ pgServer.headersAt + pgServer.bodyMs <= pgNow

TimerDue ==
    /\ pgTimer = "armed"
    /\ pgNow >= FetchTimeoutMs

\* setTimeout(abort, 15000) where the handler has it, then fetch(url)
PageFetch ==
    /\ pgPc = "start"
    /\ pgTimer' = IF HasAbortTimer(pgHandler) THEN "armed" ELSE "none"
    /\ pgPc' = "awaitHeaders"
    /\ UNCHANGED <<pgHandler, pgServer, pgNow, pgResponse>>
    /\ UNCHANGED <<firstVars, metaVars, raceVars, genericVars>>

\* await fetch(...) resolves: clearTimeout, then the test of response.ok
PageHeaders ==
    /\ HeadersReady
    /\ pgTimer' = IF pgTimer = "armed" THEN "cleared" ELSE pgTimer
    /\ IF pgServer.status \in 200..299
       THEN /\ pgPc' = "readBody"
            /\ UNCHANGED pgResponse
       ELSE /\ pgPc' = "done"
            /\ pgResponse' = [status |-> BadStatusResponse(pgHandler, pgServer.status),
                              saved |-> FALSE]
    /\ UNCHANGED <<pgHandler, pgServer, pgNow>>
    /\ UNCHANGED <<firstVars, metaVars, raceVars, genericVars>>

\* await fetch(...) rejects with a network error
PageFetchRejects ==
    /\ FetchRejectReady
    /\ pgPc' = "done"
    /\ pgResponse' = [status |-> FetchErrorStatus(pgHandler), saved |-> FALSE]
    /\ UNCHANGED <<pgHandler, pgServer, pgNow, pgTimer>>
    /\ UNCHANGED <<firstVars, metaVars, raceVars, genericVars>>

\* the timer callback: controller.abort() rejects the pending fetch
PageTimerFires ==
    /\ TimerDue
    /\ pgTimer' = "fired"
    /\ pgPc' = "done"
    /\ pgResponse' = [status |-> FetchErrorStatus(pgHandler), saved |-> FALSE]
    /\ UNCHANGED <<pgHandler, pgServer, pgNow>>
    /\ UNCHANGED <<firstVars, metaVars, raceVars, genericVars>>

\* await response.text() resolves: Readability, conversion, and the save where
\* the handler has one
PageBody ==
    /\ BodyReady
    /\ pgPc' = "done"
    /\ IF pgServer.article # "ok"
       THEN pgResponse' = [status |-> NoArticleStatus, saved |-> FALSE]
       ELSE \E dbOk \in BOOLEAN :
                pgResponse' = [status |-> 200, saved |-> Persists(pgHandler) /\ dbOk]
    /\ UNCHANGED <<pgHandler, pgServer, pgNow, pgTimer>>
    /\ UNCHANGED <<firstVars, metaVars, raceVars, genericVars>>

\* time passes while the handler waits
PageTick ==
    /\ pgPc \in {"awaitHeaders", "readBody"}
    /\ ~HeadersReady /\ ~FetchRejectReady /\ ~BodyReady /\ ~TimerDue
    /\ pgNow < MaxNow
    /\ pgNow' = pgNow + TickMs
    /\ UNCHANGED <<pgHandler, pgServer, pgPc, pgTimer, pgResponse>>
    /\ UNCHANGED <<firstVars, metaVars, raceVars, genericVars>>

NextPage ==
    \/ PageFetch
    \/ PageHeaders
    \/ PageFetchRejects
    \/ PageTimerFires
    \/ PageBody
    \/ PageTick

SpecPage == InitPage /\ [][NextPage]_vars

-----------------------------------------------------------------------------
(* The metadata resolver on any answers of the two requests *)

OembedTitles == {<<>>, <<"Some Talk">>, UnknownTitle}

OembedAuthors == {<<>>, <<"Some Channel">>, DefaultChannel}

Oembeds ==
    {OembedFailed}
    \cup { [ok |-> TRUE, title |-> t, author_name |-> a] :
             t \in OembedTitles, a \in OembedAuthors }

Blobs ==
    { NoBlob, [kind |-> "invalid", text |-> <<>>], [kind |-> "noinfo", text |-> <<>>],
      [kind |-> "attributed", text |-> <<>>],
      [kind |-> "attributed", text |-> <<"Full description">>],
      [kind |-> "runs", text |-> <<>>],
      [kind |-> "runs", text |-> <<"Full ", "description">>] }

InitMeta ==
    /\ ytOembed \in Oembeds
    /\ \/ ytScrape = ScrapeFailed
       \/ \E ogTitle \in {<<>>, <<"Og Talk">>}, docTitle \in {<<>>, <<"Doc Talk - YouTube">>},
             itempropName \in {<<>>, <<"Page Channel">>},
             ogDescription \in {<<>>, <<"Short description">>}, blob \in Blobs :
              ytScrape = [ok |-> TRUE, ogTitle |-> ogTitle, docTitle |-> docTitle,
                          itempropName |-> itempropName,
                          ogDescription |-> ogDescription, blob |-> blob]
    /\ ytPc = "called"
    /\ ytMetadata = NullMetadata
    /\ ytInFlight = {}
    /\ FirstIdle /\ PageIdle /\ RaceIdle /\ GenericIdle

\* the resolver starts: metadata gets its defaults and fetch(oembedUrl) is sent
MetaStart ==
    /\ ytPc = "called"
    /\ ytMetadata' = DefaultMetadata
    /\ ytPc' = "oembedSent"
    /\ ytInFlight' = {"oembed"}
    /\ UNCHANGED <<ytOembed, ytScrape, firstVars, pageVars, raceVars, genericVars>>

\* the first try block: await fetch(oembedUrl) settles; the second try block is
\* entered and fetch(url) of the watch page is sent
MetaOembed ==
    /\ ytPc = "oembedSent"
    /\ ytMetadata' = OembedStep(ytMetadata, ytOembed)
    /\ ytPc' = "oembedDone"
    /\ ytInFlight' = {"scrape"}
    /\ UNCHANGED <<ytOembed, ytScrape, firstVars, pageVars, raceVars, genericVars>>

\* the second try block and the return
MetaScrape ==
    /\ ytPc = "oembedDone"
    /\ ytMetadata' = MetadataResult(ScrapeStep(ytMetadata, ytScrape))
    /\ ytPc' = "returned"
    /\ ytInFlight' = {}
    /\ UNCHANGED <<ytOembed, ytScrape, firstVars, pageVars, raceVars, genericVars>>

NextMeta == MetaStart \/ MetaOembed \/ MetaScrape

SpecMeta == InitMeta /\ [][NextMeta]_vars

-----------------------------------------------------------------------------
(* The retrieval of a transcript, step by step, in the endpoints that fetch    *)
(* one: the continuation of the two-phase processor ("part_000"), the          *)
(* transcript endpoint of the processor ("processor/transcript"), the video    *)
(* branch of the local single-phase processor ("local-processor") and the      *)
(* local transcript endpoint ("local-transcript").  Time advances only when no *)
(* event of the handler is ready to run.                                       *)

TranscriptTimeoutMs == 25000

LocalTranscriptTimeoutMs == 30000

RaceEndpoints == {"part_000", "processor/transcript", "local-processor", "local-transcript"}

\* the endpoints that call fetchTranscriptWithTimeout
HasRaceTimer(endpoint) == endpoint # "local-transcript"

RaceTimeoutMs(endpoint) ==
    IF endpoint = "local-processor" THEN LocalTranscriptTimeoutMs ELSE TranscriptTimeoutMs

MaxRaceNow == LocalTranscriptTimeoutMs + 2 * TickMs

SettleTimes ==
    {0, TranscriptTimeoutMs, LocalTranscriptTimeoutMs, LocalTranscriptTimeoutMs + TickMs}

\* how YoutubeTranscript.fetchTranscript(url) behaves: it resolves with items or
\* with none, rejects, or never settles
Retrievals ==
    { [kind |-> k, at |-> at] : k \in {"items", "empty", "throws"}, at \in SettleTimes }
    \cup { [kind |-> "never", at |-> 0] }

RetrievedItems(fetch) ==
    IF fetch.kind = "items" THEN <<Segment(61000, <<"hello">>)>> ELSE <<>>

SomeMetadata ==
    [isNull |-> FALSE, title |-> <<"Some Talk">>, channel |-> <<"Some Channel">>,
     description |-> <<"About this talk">>]

\* title = metadata?.title || `YouTube Video: ${url}`
LocalVideoTitle(metadata, url) == OrElse(metadata.title, <<"YouTube Video: ">> \o url)

\* the transcript part as it would be without the note
LocalTranscriptPartNoNote(transcript) ==
    IF ~transcript.isNull /\ Len(transcript.items) > 0
    THEN <<"## Transcript\n\n">> \o TranscriptLines(transcript.items)
    ELSE <<>>

\* the transcript part of the Markdown of the local video branch
LocalTranscriptPart(transcript) ==
    IF ~transcript.isNull /\ Len(transcript.items) > 0
    THEN <<"## Transcript\n\n">> \o TranscriptLines(transcript.items)
    ELSE NoTranscriptNote

LocalVideoMarkdown(metadata, url, transcript) ==
    <<"# ">> \o LocalVideoTitle(metadata, url) \o <<"\n">>
    \o <<"**Channel:** ">> \o VideoSiteName(metadata)
    \o <<" | **Source:** [YouTube](">> \o url \o <<")\n\n">>
    \o (IF metadata.description # <<>> THEN <<"> ">> \o metadata.description \o <<"\n\n">>
        ELSE <<>>)
    \o LocalTranscriptPart(transcript)

\* transcriptMarkdown of the local transcript endpoint, which awaits the
\* retrieval itself
LocalTranscriptMarkdown(fetch) ==
    CASE fetch.kind = "throws" -> CouldNotFetchMessageNote
      [] fetch.kind = "empty" -> NoTranscriptNote
      [] OTHER -> TranscriptHeading \o TranscriptLines(RetrievedItems(fetch))

\* the response of the endpoint once the transcript is there
RaceResponse(endpoint, fetch, transcript, metadata) ==
    [status |-> 200,
     markdown |-> CASE endpoint = "local-processor"
                         -> LocalVideoMarkdown(metadata, VideoUrl, transcript)
                    [] endpoint = "local-transcript" -> LocalTranscriptMarkdown(fetch)
                    [] OTHER -> TranscriptMarkdown(transcript)]

NoTranscriptYet == [isNull |-> TRUE, items |-> <<>>]

InitRace ==
    /\ rcEndpoint \in RaceEndpoints
    /\ rcFetch \in Retrievals
    /\ rcNow = 0
    /\ rcPc = "start"
    /\ rcTimer = "none"
    /\ rcTranscript = NoTranscriptYet
    /\ rcResponse = [status |-> 0, markdown |-> <<>>]
    /\ FirstIdle /\ PageIdle /\ MetaIdle /\ GenericIdle

RetrievalSettled ==
    /\ rcPc = "racing"
    /\ rcFetch.kind # "never"
    /\ rcFetch.at <= rcNow

RaceTimerDue ==
    /\ rcTimer = "armed"
    /\ rcNow >= RaceTimeoutMs(rcEndpoint)

\* YoutubeTranscript.fetchTranscript(url) is called and, where the endpoint has
\* the helper, the timer is set
RaceStart ==
    /\ rcPc = "start"
    /\ rcPc' = "racing"
    /\ rcTimer' = IF HasRaceTimer(rcEndpoint) THEN "armed" ELSE "none"
    /\ UNCHANGED <<rcEndpoint, rcFetch, rcNow, rcTranscript, rcResponse>>
    /\ UNCHANGED <<firstVars, pageVars, metaVars, genericVars>>

\* the retrieval settles first: the helper returns its value or, when it
\* rejected, null; the handler then builds its response.  The timer is not
\* cleared.
RaceSettles ==
    /\ RetrievalSettled
    /\ \E metadata \in {NullMetadata, SomeMetadata} :
          LET transcript ==
                  fetchTranscriptWithTimeout(
                      [kind |-> IF rcFetch.kind = "throws" THEN "rejected" ELSE "resolved",
                       items |-> RetrievedItems(rcFetch)])
          IN  /\ rcTranscript' = transcript
              /\ rcResponse' = RaceResponse(rcEndpoint, rcFetch, transcript, metadata)
    /\ rcPc' = "done"
    /\ UNCHANGED <<rcEndpoint, rcFetch, rcNow, rcTimer>>
    /\ UNCHANGED <<firstVars, pageVars, metaVars, genericVars>>

\* the timer fires first: the race rejects, the helper returns null and the
\* handler builds its response
RaceTimerFires ==
    /\ rcPc = "racing"
    /\ RaceTimerDue
    /\ \E metadata \in {NullMetadata, SomeMetadata} :
          LET transcript == fetchTranscriptWithTimeout([kind |-> "pending", items |-> <<>>])
          IN  /\ rcTranscript' = transcript
              /\ rcResponse' = RaceResponse(rcEndpoint, rcFetch, transcript, metadata)
    /\ rcTimer' = "fired"
    /\ rcPc' = "done"
    /\ UNCHANGED <<rcEndpoint, rcFetch, rcNow>>
    /\ UNCHANGED <<firstVars, pageVars, metaVars, genericVars>>

\* time passes while the handler waits
RaceTick ==
    /\ rcPc = "racing"
    /\ ~RetrievalSettled /\ ~RaceTimerDue
    /\ rcNow < MaxRaceNow
    /\ rcNow' = rcNow + TickMs
    /\ UNCHANGED <<rcEndpoint, rcFetch, rcPc, rcTimer, rcTranscript, rcResponse>>
    /\ UNCHANGED <<firstVars, pageVars, metaVars, genericVars>>

NextRace ==
    \/ RaceStart
    \/ RaceSettles
    \/ RaceTimerFires
    \/ RaceTick

SpecRace == InitRace /\ [][NextRace]_vars

-----------------------------------------------------------------------------
(* The generic branch of the processor, statement by statement.  A page is a  *)
(* sequence of elements [kind, text, safe, inArticle]: DOMPurify drops the     *)
(* elements that are not safe; Readability keeps the elements of the article   *)
(* and discards the others from the document it was given.                     *)

MaxPageNodes == 2

Element(kind, text, safe, inArticle) ==
    [kind |-> kind, text |-> text, safe |-> safe, inArticle |-> inArticle]

ElementKinds == {"h2", "a", "img", "infobox", "p"}

Elements ==
    { Element(kind, <<kind, " text">>, safe, inArticle) :
        kind \in ElementKinds, safe \in BOOLEAN, inArticle \in BOOLEAN }

IsSafe(el) == el.safe

IsH2(el) == el.kind = "h2"

IsA(el) == el.kind = "a"

IsImg(el) == el.kind = "img"

IsInfobox(el) == el.kind = "infobox"

IsInArticle(el) == el.inArticle

\* new JSDOM(DOMPurify.sanitize(html), { url }).window.document
SanitizedDocument(html) == SelectSeq(html, IsSafe)

\* new JSDOM(html, { url }).window.document
OriginalDocument(html) == html

\* what extractHeadings, extractLinks, extractImages and extractWikipediaData
\* select in the document they are given
HeadingsIn(doc) == SelectSeq(doc, IsH2)

LinksIn(doc) == SelectSeq(doc, IsA)

ImagesIn(doc) == SelectSeq(doc, IsImg)

InfoboxesIn(doc) == SelectSeq(doc, IsInfobox)

\* new Readability(doc).parse(): the article, and the document as it leaves it
ArticleIn(doc) == SelectSeq(doc, IsInArticle)

\* the order of the statements as it would be with Readability first
GenericStepsReadabilityFirst == <<"parse", "readability", "structured", "wikipedia">>

\* the statements of the try block after response.text(), in their order
GenericSteps == <<"parse", "structured", "wikipedia", "readability">>

InitGeneric ==
    /\ \E url \in {PageUrl, WikipediaUrl}, html \in SeqsUpTo(Elements, MaxPageNodes) :
          gnPage = [url |-> url, html |-> html]
    /\ gnDoc = <<>>
    /\ gnStep = 1
    /\ gnOut = NoGenericOut
    /\ FirstIdle /\ PageIdle /\ MetaIdle /\ RaceIdle

\* the effect of one statement on the document and on the values computed
StatementDoc(statement, page, doc) ==
    CASE statement = "parse" -> SanitizedDocument(page.html)
      [] statement = "readability" -> ArticleIn(doc)
      [] OTHER -> doc

StatementOut(statement, page, doc, out) ==
    CASE statement = "structured"
           -> [out EXCEPT !.headings = HeadingsIn(doc), !.links = LinksIn(doc),
                          !.images = ImagesIn(doc)]
      [] statement = "wikipedia"
           -> IF Includes(page.url, <<"wikipedia.org">>)
              THEN [out EXCEPT !.wikipedia = InfoboxesIn(OriginalDocument(page.html))]
              ELSE out
      [] statement = "readability" -> [out EXCEPT !.article = ArticleIn(doc)]
      [] OTHER -> out

\* the next statement runs
GenericStep ==
    /\ gnStep \in 1..Len(GenericSteps)
    /\ gnDoc' = StatementDoc(GenericSteps[gnStep], gnPage, gnDoc)
    /\ gnOut' = StatementOut(GenericSteps[gnStep], gnPage, gnDoc, gnOut)
    /\ gnStep' = gnStep + 1
    /\ UNCHANGED <<gnPage, firstVars, pageVars, metaVars, raceVars>>

NextGeneric == GenericStep

SpecGeneric == InitGeneric /\ [][NextGeneric]_vars

-----------------------------------------------------------------------------
(* The Dashboard page: history load, selection and removal *)

\* findMany({ where: { userId }, orderBy: { createdAt: 'desc' } }): the rows of
\* the user, newest first, each with its id
HistoryRows(rows, user) ==
    LET n == Len(rows)
        newestFirst == [i \in 1..n |->
            [id |-> DbId(n + 1 - i), userId |-> rows[n + 1 - i].userId,
             url |-> rows[n + 1 - i].url, markdown |-> rows[n + 1 - i].markdown]]
        Mine(row) == row.userId = user
    IN  SelectSeq(newestFirst, Mine)

\* data.map(d => ({ id: d.id, url: d.url, status: 'success', result: {...} }))
HistoryDocs(data) ==
    [i \in DOMAIN data |->
        [id |-> data[i].id, url |-> data[i].url, status |-> "success",
         markdown |-> data[i].markdown, needsTranscript |-> FALSE]]

\* setDocuments(prev => [...historyDocs.filter(h => !currentIds.has(h.id)), ...prev])
MergeHistory(prev, historyDocs) ==
    LET currentIds == {prev[i].id : i \in DOMAIN prev}
        IsNew(h) == h.id \notin currentIds
    IN  SelectSeq(historyDocs, IsNew) \o prev

\* the page is opened by a signed-in user: the effect has sent the history
\* request, and the list is empty
InitDashboard ==
    /\ \E n \in 0..MaxHistory : db = [i \in 1..n |-> OldRow]
    /\ procs = [p \in 1..MaxProc |-> IdleProc]
    /\ conts = [c \in 1..MaxCont |-> IdleCont]
    /\ clientKind = "Dashboard"
    /\ documents = <<>>
    /\ selectedDocId = NoId
    /\ tasks = [k \in 1..MaxTasks |-> IdleTask]
    /\ hsPc = "sent"
    /\ hsData = <<>>
    /\ ExtractIdle /\ WikiIdle /\ MarkdownIdle /\ TimeIdle
    /\ PageIdle /\ MetaIdle /\ RaceIdle /\ GenericIdle

\* the server answers the history request: the rows as they are now, or an
\* error, which the page reads as an empty list
HistoryGet ==
    /\ hsPc = "sent"
    /\ \E ok \in BOOLEAN :
          hsData' = IF ok THEN HistoryRows(db, ClientUser) ELSE <<>>
    /\ hsPc' = "answered"
    /\ UNCHANGED <<flowVars, extractVars, wikiVars, markdownVars, timeVars, pageVars,
                   metaVars, raceVars, genericVars>>

\* the page handles the history response
HistoryLoaded ==
    /\ hsPc = "answered"
    /\ documents' = MergeHistory(documents, HistoryDocs(hsData))
    /\ hsPc' = "done"
    /\ UNCHANGED <<db, procs, conts, clientKind, selectedDocId, tasks, hsData,
                   extractVars, wikiVars, markdownVars, timeVars, pageVars,
                   metaVars, raceVars, genericVars>>

\* onClick={() => setSelectedDocId(doc.id)} on entry i of the list
SelectDoc(i) ==
    /\ i \in DOMAIN documents
    /\ selectedDocId' = documents[i].id
    /\ UNCHANGED <<db, procs, conts, clientKind, documents, tasks, pureVars>>

\* removeDoc(doc.id) on entry i of the list
removeDoc(i) ==
    /\ i \in DOMAIN documents
    /\ LET id == documents[i].id
           Kept(d) == d.id # id
       IN  /\ documents' = SelectSeq(documents, Kept)
           /\ selectedDocId' = IF selectedDocId = id THEN NoId ELSE selectedDocId
    /\ UNCHANGED <<db, procs, conts, clientKind, tasks, pureVars>>

NextDashboard ==
    \/ \E url \in ClientUrls : Compile(url)
    \/ \E p \in 1..MaxProc : ProcCheck(p)
    \/ \E p \in 1..MaxProc : ProcRunVideo(p)
    \/ \E p \in 1..MaxProc : ProcRunPage(p)
    \/ \E k \in 1..MaxTasks : ClientProcError(k)
    \/ \E k \in 1..MaxTasks : DashboardSuccess(k)
    \/ HistoryGet
    \/ HistoryLoaded
    \/ \E i \in 1..(MaxTasks + MaxHistory) : SelectDoc(i)
    \/ \E i \in 1..(MaxTasks + MaxHistory) : removeDoc(i)

SpecDashboard == InitDashboard /\ [][NextDashboard]_vars

-----------------------------------------------------------------------------
(* Claims about the request flow *)

\* C1: after the metadata phase stored a markdown containing the placeholder and
\* the continuation ran on that document, the stored markdown (the one the
\* continuation wrote and returned) has no occurrence of the placeholder; it has
\* the "## Transcript" section when the retrieval resolved, and the "Could not
\* fetch transcript" note when it timed out or failed.
C1_PlaceholderRemoved ==
    \A c \in 1..MaxCont :
        (conts[c].pc = "done" /\ conts[c].status = 200
            /\ Includes(conts[c].docMarkdown, Placeholder))
        => /\ ~Includes(conts[c].markdown, Placeholder)
           /\ ~conts[c].transcript.isNull => Includes(conts[c].markdown, TranscriptHeading)
           /\ conts[c].transcript.isNull => Includes(conts[c].markdown, CouldNotFetchNote)

\* C2: a client document with needsTranscript never is in the terminal state
\* 'success' with the placeholder still in its markdown.
C2_NoDanglingPlaceholder ==
    \A i \in DOMAIN documents :
        (documents[i].status = "success" /\ documents[i].needsTranscript)
        => ~Includes(documents[i].markdown, Placeholder)

\* C3: a user who is not Pro never has more than 20 stored documents, and a
\* request answered 403 by the limit check fetched nothing and saved nothing.
C3_FreeLimit ==
    /\ \A u \in Users : ~IsPro(u) => CountDocuments(db, u) <= FreeLimit
    /\ \A p \in 1..MaxProc :
          (procs[p].pc = "done" /\ procs[p].status = 403)
          => (~procs[p].fetched /\ procs[p].id = NoId)

-----------------------------------------------------------------------------
(* Claims about structured extraction *)

\* the anchor at position j has an href that new URL resolves
Resolvable(j) ==
    /\ exPage.anchors[j].href # <<>>
    /\ ResolveUrl(exPage.anchors[j].href, BaseUrl).ok

Resolved(j) == ResolveUrl(exPage.anchors[j].href, BaseUrl).href

\* C4: the result of extractLinks has at most 100 entries and no two entries
\* have the same resolved absolute href.
C4_LinksCappedAndDistinct ==
    exPc \in {"links", "done"}
    => /\ Len(exLinks.links) <= LinkCap
       /\ \A i, j \in 1..Len(exLinks.links) :
             exLinks.links[i].href = exLinks.links[j].href => i = j

\* C4 witness: a page with more than 100 anchors, two of them resolving to the
\* same URL, on which the scan stopped at the cap
C4_Witness ==
    /\ exPc \in {"links", "done"}
    /\ Len(exLinks.links) = LinkCap
    /\ exLinks.stopped
    /\ Len(exPage.anchors) > LinkCap
    /\ \E i, j \in 1..Len(exPage.anchors) :
          i < j /\ Resolvable(i) /\ Resolvable(j) /\ Resolved(i) = Resolved(j)
          /\ Trim(exPage.anchors[i].text) # <<>> /\ Trim(exPage.anchors[j].text) # <<>>

\* C5: an anchor whose href attribute is of the form #... never produces an
\* entry in the links result.
C5_NoFragmentOnlyLinks ==
    exPc \in {"links", "done"}
    => \A k \in 1..Len(exLinks.from) :
          ~StartsWith(exPage.anchors[exLinks.from[k]].href, <<"#">>)

\* C6: extractLinks and extractImages never throw; an href or src that cannot
\* be resolved is skipped and the remaining elements are still processed: below
\* the cap every resolvable anchor with text whose URL no earlier anchor
\* resolved to has its entry, and the images are exactly the resolvable ones in
\* document order.
C6_NeverThrows ==
    /\ exPc \in {"links", "done"}
       => /\ ~exLinks.threw
          /\ Len(exLinks.links) < LinkCap
             => \A j \in 1..Len(exPage.anchors) :
                   ( /\ Resolvable(j)
                     /\ Trim(exPage.anchors[j].text) # <<>>
                     /\ \A i \in 1..(j - 1) : Resolvable(i) => Resolved(i) # Resolved(j) )
                   => \E k \in 1..Len(exLinks.from) : exLinks.from[k] = j
    /\ exPc = "done"
       => /\ ~exImages.threw
          /\ LET ok == SelectSeq(exPage.imgs,
                                 LAMBDA e : e.src # <<>> /\ ResolveUrl(e.src, BaseUrl).ok)
             IN  exImages.images =
                    [k \in 1..Len(ok) |->
                        [src |-> ResolveUrl(ok[k].src, BaseUrl).href, alt |-> ok[k].alt]]

\* C6 witness: an unresolvable href followed by an anchor that gave an entry,
\* and an unresolvable src followed by an image that was collected
C6_Witness ==
    /\ exPc = "done"
    /\ \E i \in 1..Len(exPage.anchors) :
          /\ exPage.anchors[i].href # <<>> /\ ~ResolveUrl(exPage.anchors[i].href, BaseUrl).ok
          /\ \E k \in 1..Len(exLinks.from) : exLinks.from[k] > i
    /\ \E i \in 1..Len(exPage.imgs) :
          /\ exPage.imgs[i].src # <<>> /\ ~ResolveUrl(exPage.imgs[i].src, BaseUrl).ok
          /\ i < Len(exPage.imgs)
          /\ exImages.images # <<>>
          /\ exImages.images[Len(exImages.images)].src
                = ResolveUrl(exPage.imgs[Len(exPage.imgs)].src, BaseUrl).href

\* the j-th anchor was scanned: the cap was not reached, or it was reached at
\* this anchor or after it
Scanned(j) ==
    \/ Len(exLinks.links) < LinkCap
    \/ j <= exLinks.from[LinkCap]

\* C26: the links result is complete and in document order: every scanned
\* anchor that resolves and has text after trimming has its resolved URL in the
\* result, whatever anchors came before it, and the entries come from anchors
\* in increasing position.
C26_LinksCompleteAndOrdered ==
    exPc \in {"links", "done"}
    => /\ \A j \in 1..Len(exPage.anchors) :
             (Scanned(j) /\ Resolvable(j) /\ Trim(exPage.anchors[j].text) # <<>>)
             => \E i \in 1..Len(exLinks.links) : exLinks.links[i].href = Resolved(j)
       /\ \A i \in 1..(Len(exLinks.from) - 1) : exLinks.from[i] < exLinks.from[i + 1]

-----------------------------------------------------------------------------
(* Claims about Wikipedia extraction *)

\* the host is wikipedia.org or one of its subdomains
IsWikipediaHost(host) ==
    /\ host # <<>>
    /\ host[Len(host)] = "wikipedia.org"
    /\ \A i \in 1..(Len(host) - 1) : host[i] \in SubdomainLabels

\* C7: the wikipedia field appears in a response only when the host of the
\* source URL is a Wikipedia domain and at least one of infobox, categories,
\* references is non-empty.
C7_WikipediaOnlyWhenHostAndData ==
    (wkPc = "responded" /\ wkResponse.hasWikipedia)
    => /\ IsWikipediaHost(Host(wkUrl))
       /\ \/ wkResponse.wikipedia.hasInfobox /\ DOMAIN wkResponse.wikipedia.infobox # {}
          \/ wkResponse.wikipedia.hasCategories /\ wkResponse.wikipedia.categories # <<>>
          \/ wkResponse.wikipedia.hasReferences /\ wkResponse.wikipedia.references # <<>>

\* the rows of the first .infobox element
FirstInfoboxRows == IF wkPage.infoboxes = <<>> THEN <<>> ELSE wkPage.infoboxes[1]

\* header and data cell both present and non-empty after trimming
IsComplete(row) ==
    row.hasTh /\ row.hasTd /\ Trim(row.th) # <<>> /\ Trim(row.td) # <<>>

CompleteRows == SelectSeq(FirstInfoboxRows, IsComplete)

\* C8, as stated: the infobox map contains exactly the complete rows of the
\* first .infobox element: one entry per complete row, each with its value.
C8_ExactlyCompleteRows ==
    (wkPc \in {"extracted", "responded"} /\ ~wkWikipedia.isNull)
    => LET w == wkWikipedia.value
       IN  /\ w.hasInfobox <=> CompleteRows # <<>>
           /\ w.hasInfobox
              => /\ Cardinality(DOMAIN w.infobox) = Len(CompleteRows)
                 /\ \A i \in 1..Len(CompleteRows) :
                       /\ Trim(CompleteRows[i].th) \in DOMAIN w.infobox
                       /\ w.infobox[Trim(CompleteRows[i].th)] = Trim(CompleteRows[i].td)

\* C8, amended: the infobox map has one entry per distinct trimmed header among
\* the complete rows of the first .infobox element, with the trimmed value of
\* the last complete row of that header; other rows are skipped; the map is
\* absent when there is no complete row.
C8_LastCompleteRowPerHeader ==
    (wkPc \in {"extracted", "responded"} /\ ~wkWikipedia.isNull)
    => LET w == wkWikipedia.value
       IN  /\ w.hasInfobox <=> CompleteRows # <<>>
           /\ w.hasInfobox
              => /\ DOMAIN w.infobox = {Trim(CompleteRows[i].th) : i \in 1..Len(CompleteRows)}
                 /\ \A i \in 1..Len(CompleteRows) :
                       (\A j \in (i + 1)..Len(CompleteRows) :
                            Trim(CompleteRows[j].th) # Trim(CompleteRows[i].th))
                       => w.infobox[Trim(CompleteRows[i].th)] = Trim(CompleteRows[i].td)

\* C8 witness: five rows, three of them skipped, the two complete ones with the
\* same header and different values, after extraction
C8_Witness ==
    /\ wkPc \in {"extracted", "responded"} /\ ~wkWikipedia.isNull
    /\ Len(FirstInfoboxRows) = 5
    /\ Len(CompleteRows) = 2
    /\ Trim(CompleteRows[1].th) = Trim(CompleteRows[2].th)
    /\ Trim(CompleteRows[1].td) # Trim(CompleteRows[2].td)
    /\ wkWikipedia.value.hasInfobox

-----------------------------------------------------------------------------
(* Claims about Markdown conversion and transcript lines *)

\* what the image rule of the specification emits for a node
ImageToken(node) ==
    IF node.tag # "img" THEN node.text
    ELSE IF AttrOrEmpty(node.src) = <<>> THEN <<>>
    ELSE <<"![">> \o AttrOrEmpty(node.alt) \o <<"](">> \o AttrOrEmpty(node.src) \o <<")">>

RECURSIVE ImageTokens(_)
ImageTokens(nodes) ==
    IF nodes = <<>> THEN <<>> ELSE ImageToken(Head(nodes)) \o ImageTokens(Tail(nodes))

\* C9: in the Markdown emitted for a generic page, an img with empty or missing
\* src produces no image token and an img with non-empty src produces
\* ![alt](src), which is ![](src) when alt is empty.
C9_ImageRule ==
    mdPc = "done" => mdOut = ImageTokens(mdNodes)

\* the decimal digits of a token sequence, as a number
DigitValue(d) ==
    CHOOSE v \in 0..9 : <<"0", "1", "2", "3", "4", "5", "6", "7", "8", "9">>[v + 1] = d

IsDigits(s) ==
    /\ s # <<>>
    /\ \A i \in 1..Len(s) : s[i] \in {"0", "1", "2", "3", "4", "5", "6", "7", "8", "9"}

RECURSIVE Decimal(_)
Decimal(s) ==
    IF s = <<>> THEN 0 ELSE 10 * Decimal(SubSeq(s, 1, Len(s) - 1)) + DigitValue(s[Len(s)])

\* the timestamp of the rendered line: what stands between ** and ** -
RenderedTimestamp == SubSeq(tsOut, 2, IndexOf(tsOut, <<"** - ">>) - 1)
RenderedMinutes == SubSeq(RenderedTimestamp, 1, IndexOf(RenderedTimestamp, <<":">>) - 1)
RenderedSeconds ==
    SubSeq(RenderedTimestamp, IndexOf(RenderedTimestamp, <<":">>) + 1, Len(RenderedTimestamp))

-----------------------------------------------------------------------------
(* Claims about the processing endpoint's inputs and failures *)

\* C11: a request whose url is missing or does not parse as an absolute URL is
\* answered with a 400-class error and no outbound fetch is issued for it.
C11_InvalidUrlRejected ==
    \A p \in 1..MaxProc :
        (procs[p].pc = "done" /\ ~IsAbsoluteUrl(procs[p].url))
        => /\ procs[p].status \in 400..499
           /\ ~procs[p].fetched

-----------------------------------------------------------------------------
(* Claims about the fetch of the generic page mode *)

\* the fetch failed or the extractor gave no article or an empty one
PageFailed ==
    \/ pgTimer = "fired"
    \/ pgServer.kind = "networkError"
    \/ pgServer.kind = "responds" /\ pgServer.status \notin 200..299
    \/ pgServer.kind = "responds" /\ pgServer.article # "ok"

\* C12: in generic-page mode a request whose page fetch failed (timeout, non-2xx
\* status, network error) or whose extraction gave no article or empty content
\* ends with status 422 and has created no row.
C12_PageFailureIs422 ==
    (pgPc = "done" /\ PageFailed)
    => /\ pgResponse.status = 422
       /\ ~pgResponse.saved

\* C20: the generic page fetch never goes on past the fetch timeout: while the
\* handler still waits for the response headers or reads the response body, no
\* more than the timeout has elapsed.
C20_FetchCutOffAtTimeout ==
    pgPc \in {"awaitHeaders", "readBody"} => pgNow <= FetchTimeoutMs

-----------------------------------------------------------------------------
(* Claims about the save and about missing video metadata *)

PlaceholderResponse(r) ==
    /\ r.status = 200
    /\ r.title = <<"YouTube Transcript: ">> \o r.url
    /\ r.siteName = DefaultChannel
    /\ Includes(r.markdown, r.title)

\* the document of response r is a row of the store
Persisted(r) ==
    /\ r.id.kind = "db"
    /\ r.id.n \in 1..Len(db)
    /\ db[r.id.n] = [userId |-> r.user, url |-> r.url, markdown |-> r.markdown]

\* C19: when every metadata source failed (the resolver returned null) the video
\* request is answered with a success, not an error: its document has the
\* placeholder title and the channel 'YouTube', and the save step stores it as
\* it stores any other document (a row of the store; only when the create
\* itself fails is it returned with the warning flag and a temporary id).
C19_PlaceholderPersisted ==
    \A p \in 1..MaxProc :
        (procs[p].pc = "done" /\ procs[p].metaNull)
        => /\ PlaceholderResponse(procs[p])
           /\ IF procs[p].dbFailed
              THEN procs[p].warning /\ procs[p].id = TempId(p)
              ELSE Persisted(procs[p])

C19_Witness ==
    \E p \in 1..MaxProc :
        /\ procs[p].pc = "done" /\ procs[p].metaNull
        /\ PlaceholderResponse(procs[p]) /\ Persisted(procs[p])

-----------------------------------------------------------------------------
(* Claims about the metadata resolver *)

\* one of the two requests gave a title (a channel) other than the default
TitleFound ==
    \/ ytOembed.ok /\ ytOembed.title \notin {<<>>, UnknownTitle}
    \/ ytScrape.ok /\ (ytScrape.ogTitle # <<>> \/ ytScrape.docTitle # <<>>)

ChannelFound ==
    \/ ytOembed.ok /\ ytOembed.author_name \notin {<<>>, DefaultChannel}
    \/ ytScrape.ok /\ ytScrape.itempropName # <<>>

\* C16: getYouTubeMetadata returns null exactly when neither request gave a title
\* other than 'Unknown Title' nor a channel other than 'YouTube'; when either
\* was found it returns an object that has both fields, empty description or not.
C16_NullIffBothDefault ==
    ytPc = "returned"
    => /\ ytMetadata.isNull <=> (~TitleFound /\ ~ChannelFound)
       /\ ~ytMetadata.isNull => (ytMetadata.title # <<>> /\ ytMetadata.channel # <<>>)

C16_Witness ==
    /\ ytPc = "returned"
    /\ TitleFound /\ ~ChannelFound
    /\ ~ytMetadata.isNull
    /\ ytMetadata.channel = DefaultChannel
    /\ ytMetadata.description = <<>>

\* C17: when the oEmbed answer has a non-empty title (channel), the returned
\* title (channel) is the oEmbed one, whatever the page gave.
C17_OembedWins ==
    (ytPc = "returned" /\ ~ytMetadata.isNull /\ ytOembed.ok)
    => /\ ytOembed.title # <<>> => ytMetadata.title = ytOembed.title
       /\ ytOembed.author_name # <<>> => ytMetadata.channel = ytOembed.author_name

\* the blob gives a description: attributedDescription.content is non-empty, or
\* description.runs is there
BlobGivesDescription(blob) ==
    \/ blob.kind = "attributed" /\ blob.text # <<>>
    \/ blob.kind = "runs"

\* C18: when the page was fetched and its ytInitialData blob is absent, does not
\* parse or lacks the description fields, the description is the open-graph one
\* (or empty) and the title and channel that were found are still returned; when
\* the blob gives a description, that one is returned.
C18_DescriptionFallback ==
    (ytPc = "returned" /\ ytScrape.ok)
    => /\ (TitleFound \/ ChannelFound) => ~ytMetadata.isNull
       /\ ~ytMetadata.isNull
          => ytMetadata.description =
                IF BlobGivesDescription(ytScrape.blob) THEN ytScrape.blob.text
                ELSE ytScrape.ogDescription

C18_Witness ==
    /\ ytPc = "returned" /\ ytScrape.ok
    /\ ytScrape.blob.kind = "invalid"
    /\ ytScrape.ogDescription # <<>>
    /\ ~ytMetadata.isNull
    /\ ytMetadata.description = ytScrape.ogDescription

-----------------------------------------------------------------------------
(* Claims about the retrieval of the transcript *)

\* C14: in the video branch of the single-phase processor a retrieval that times
\* out, throws or gives no captions never fails the request: the helper returns
\* null when the retrieval threw or the timer fired, the response is a success,
\* and its Markdown contains the no-transcript note.
C14_NoTranscriptIsANote ==
    (rcEndpoint = "local-processor" /\ rcPc = "done")
    => /\ rcResponse.status = 200
       /\ (rcFetch.kind = "throws" \/ rcTimer = "fired") => rcTranscript.isNull
       /\ (rcFetch.kind # "items" \/ rcTimer = "fired")
          => Includes(rcResponse.markdown, NoTranscriptNote)

C14_Witness ==
    /\ rcEndpoint = "local-processor" /\ rcPc = "done"
    /\ rcFetch.kind = "never" /\ rcTimer = "fired"
    /\ rcTranscript.isNull
    /\ rcResponse.status = 200
    /\ Includes(rcResponse.markdown, NoTranscriptNote)

\* C15: in every endpoint that fetches a transcript the retrieval is raced
\* against a timer: while the endpoint waits for the retrieval, a timer is armed.
C15_EveryRetrievalRaced ==
    rcPc = "racing" => rcTimer = "armed"

-----------------------------------------------------------------------------
(* Claims about the order of the steps *)

\* C21: the two requests of the metadata resolver run concurrently: while the
\* oEmbed request is in flight the request of the watch page is in flight too,
\* and none is in flight when the resolver has returned.
C21_SubFetchesConcurrent ==
    /\ "oembed" \in ytInFlight => "scrape" \in ytInFlight
    /\ ytPc = "returned" => ytInFlight = {}

GenericDone == gnStep > Len(GenericSteps)

\* C24: in generic mode the headings, links and images are those of the
\* sanitized parsed document as it was before the article extractor ran on it,
\* and the Wikipedia data is read from a separate parse of the original html:
\* what the article extractor discards is missing from none of them.
C24_StructuredBeforeReadability ==
    GenericDone
    => /\ gnOut.headings = HeadingsIn(SanitizedDocument(gnPage.html))
       /\ gnOut.links = LinksIn(SanitizedDocument(gnPage.html))
       /\ gnOut.images = ImagesIn(SanitizedDocument(gnPage.html))
       /\ Includes(gnPage.url, <<"wikipedia.org">>)
          => gnOut.wikipedia = InfoboxesIn(gnPage.html)
       /\ gnOut.article = ArticleIn(SanitizedDocument(gnPage.html))

\* the extractor discarded a link and an infobox the sanitizer had dropped was
\* still read
C24_Witness ==
    /\ GenericDone
    /\ Includes(gnPage.url, <<"wikipedia.org">>)
    /\ gnOut.links # <<>>
    /\ LinksIn(gnDoc) = <<>>
    /\ gnOut.wikipedia # <<>>
    /\ InfoboxesIn(SanitizedDocument(gnPage.html)) = <<>>


\* the requests that emitted the document with this id
EmittersOf(id) ==
    { p \in 1..MaxProc : procs[p].pc = "done" /\ procs[p].status = 200 /\ procs[p].id = id }

\* C22: the markdown of every document emitted (generic mode and video mode) and
\* the markdown stored after a transcript was merged is the Markdown
\* serialization of the document's content.
C22_MarkdownSerializesContent ==
    /\ \A p \in 1..MaxProc :
          (procs[p].pc = "done" /\ procs[p].status = 200)
          => procs[p].markdown = ContentMarkdown(procs[p].content)
    /\ \A c \in 1..MaxCont :
          (conts[c].pc = "done" /\ conts[c].status = 200)
          => \A p \in EmittersOf(conts[c].docId) :
                conts[c].markdown = ContentMarkdown(procs[p].content)

-----------------------------------------------------------------------------
(* Claims about sanitization *)

NoActiveMarkup(text) == \A i \in 1..Len(text) : text[i] \notin ActiveMarkup

\* C23: no content and no markdown returned to the caller holds remote text that
\* did not pass through the sanitizer: none of them contains active markup.
C23_OnlySanitizedText ==
    \A p \in 1..MaxProc :
        (procs[p].pc = "done" /\ procs[p].status = 200)
        => /\ NoActiveMarkup(procs[p].markdown)
           /\ \A i \in 1..Len(procs[p].content) : NoActiveMarkup(procs[p].content[i].text)


HasTranscriptHeading(markdown) ==
    \/ Includes(markdown, TranscriptHeading)
    \/ Includes(markdown, <<"## Transcript\n\n">>)

HasNoTranscriptNote(markdown) ==
    \/ Includes(markdown, NoTranscriptNote)
    \/ Includes(markdown, CouldNotFetchNote)

\* C25: when the retrieval resolved with an empty sequence of segments, the
\* Markdown the endpoint assembles has the no-transcript note and has no
\* transcript heading.
C25_EmptyTranscriptIsANote ==
    (rcPc = "done" /\ rcFetch.kind = "empty" /\ rcTimer # "fired")
    => /\ HasNoTranscriptNote(rcResponse.markdown)
       /\ ~HasTranscriptHeading(rcResponse.markdown)

-----------------------------------------------------------------------------
(* Claims about the transcript continuation *)

ContRejections == {400, 401, 403, 404}

\* the status the checks of the continuation give request r on the rows as
\* they are
ExpectedContStatus(r) ==
    IF r.user = NoUser THEN 401
    ELSE IF r.docId = NoId \/ r.url = NoUrl THEN 400
    ELSE IF ~(r.docId.kind = "db" /\ r.docId.n \in 1..Len(db)) THEN 404
    ELSE IF db[r.docId.n].userId # r.user THEN 403
    ELSE 200

\* a rejected call fetched no transcript, and a call is rejected exactly when
\* the caller is not signed in (401), docId or url is missing (400), the row
\* does not exist (404) or is another user's (403)
ContRejected ==
    \A c \in 1..MaxCont :
        conts[c].pc = "done"
        => /\ conts[c].status = ExpectedContStatus(conts[c])
           /\ conts[c].status \in ContRejections
              => /\ conts[c].transcript = [isNull |-> TRUE, items |-> <<>>]
                 /\ conts[c].markdown = <<>>

\* a step that answers a call with a rejection leaves every row as it was
ContRejectionKeepsStore ==
    (\E c \in 1..MaxCont :
        /\ conts[c].pc # "done"
        /\ conts'[c].pc = "done"
        /\ conts'[c].status \in ContRejections)
    => db' = db

\* C27: the continuation is owner-only and leaves the store unchanged on
\* rejection: a call by a caller who is not signed in (401), without docId or
\* url (400), for an unknown docId (404) or by a user who does not own the row
\* (403) fetches no transcript and changes no row.
C27_RejectionLeavesStore == []ContRejected /\ [][ContRejectionKeepsStore]_vars

C27_Witness ==
    /\ \E c \in 1..MaxCont : conts[c].pc = "done" /\ conts[c].status = 403
    /\ \E c \in 1..MaxCont : conts[c].pc = "done" /\ conts[c].status = 404
    /\ \A i \in 1..Len(db) : db[i] = OldRow
    /\ Len(db) > 0


\* the transcript sections and transcript error notes in a markdown text
TranscriptParts(markdown) ==
    {i \in 1..Len(markdown) :
        <<markdown[i]>> \in {TranscriptHeading, CouldNotFetchNote, FailedToLoadNote}}

\* C28: however many continuation calls are made for one stored document,
\* one after another or at the same time, its stored markdown holds at most
\* one transcript section or transcript error note: a second call appends
\* nothing.
C28_AtMostOneTranscript ==
    \A i \in 1..Len(db) : Cardinality(TranscriptParts(db[i].markdown)) <= 1

-----------------------------------------------------------------------------
(* Claims about the Dashboard document list *)

ListedIds == {documents[i].id : i \in DOMAIN documents}

\* C29: after any sequence of compile, select, remove and processing-completion
\* events, selectedDocId is null or the id of a document in the list, also
\* when a processed document's temporary id is replaced by the id the server
\* returned.
C29_SelectionIsListed == selectedDocId = NoId \/ selectedDocId \in ListedIds

\* C30: the list never holds two entries with the same id, whatever the order
\* in which the history response and the responses of the processing requests
\* in flight are handled.
C30_IdsAreUnique ==
    \A i, j \in DOMAIN documents : documents[i].id = documents[j].id => i = j

====
